---- MODULE Spec2Model ----
(***************************************************************************)
(* ParaYeild_Data: periodic crawl of Bifrost / Moonwell / Hydration yield  *)
(* data, the day-bucketed upsert into three MongoDB collections, the       *)
(* activity log, the scheduler's fan-out and the /pools read side.         *)
(*                                                                         *)
(* Node runs every handler to its next await without interruption, so one  *)
(* action of this model is one stretch of code between two awaits.         *)
(* Time is a clock of abstract instants, DayLen of them to a UTC day.      *)
(***************************************************************************)
EXTENDS Integers, Sequences, FiniteSets, TLC

(* ------------------------------ bounds -------------------------------- *)
\* instants per UTC day
DayLen == 2
\* last instant of the clock
MaxTime == 2
\* manual crawl requests in one behaviour of Spec
MaxRuns == 2
\* distinct upstream readings
MaxVal == 2
\* how many instants an upstream data point may lag behind the crawl
MaxLag == 1
\* scheduler ticks in one behaviour of SpecTick
MaxTicks == 1

(* ----------------------------- vocabulary ----------------------------- *)
\* a nullable column without a value (undefined in the snapshot object,
\* null or absent in the stored document)
None == -1

\* a string column without a value: Network.HYDRATION is not a member of
\* the Network enum, so the expression is undefined at run time
Undefined == "undefined"

Services == {"vstaking", "farming", "markets", "pools"}

Collections == {"bifrost_snapshots", "moonwell_snapshots", "hydration_snapshots"}

\* the repository each service is injected with
RepoOf(svc) ==
    CASE svc \in {"vstaking", "farming"} -> "bifrost_snapshots"
      [] svc = "markets" -> "moonwell_snapshots"
      [] svc = "pools" -> "hydration_snapshots"

MetricFields == {"supplyApy", "borrowApy", "rewardApy", "totalApy", "tvlUsd", "utilizationRate"}

\* the columns of BaseProtocolSnapshot that the model keeps
Fields == {"protocol", "network", "poolType", "assetSymbol", "snapshotDate",
           "dataTimestamp", "updatedAt"} \cup MetricFields

Values == 1..MaxVal

Times == 0..MaxTime

\* getUtcDateKey: the UTC calendar day an instant falls in
getUtcDateKey(t) == t \div DayLen

\* the value a document (or snapshot object) holds in a column
Get(d, f) == IF f \in DOMAIN d THEN d[f] ELSE None

\* the four columns of the unique index
IndexKey(d) == <<Get(d, "network"), Get(d, "poolType"), Get(d, "assetSymbol"), Get(d, "snapshotDate")>>

\* Array.prototype.sort with a numeric comparator, and the ORDER BY of a
\* find(): a stable sort on a column, ascending when asc, descending
\* otherwise (SortSeq is an insertion sort that moves an element only past
\* those the comparator puts strictly after it)
SortByKey(seq, field, asc) ==
    SortSeq(seq, LAMBDA x, y : IF asc THEN Get(x, field) < Get(y, field)
                               ELSE Get(x, field) > Get(y, field))

(* --------------------------- upstream inputs -------------------------- *)
\* config/pools.yaml: the tokens of the two Bifrost pools
Tokens(svc) == <<"vDOT">>

\* the instants an upstream data point read at t may carry
LagTimes(t) == {d \in Times : d <= t /\ t - d <= MaxLag}

\* what dapi.bifrost.io answers for one token: ok is false for a non-2xx
\* status, an empty result array or a fetch that throws
BifrostResponses(svc, t) ==
    {[ok |-> FALSE, avg |-> None, date |-> None]}
    \cup {[ok |-> TRUE, avg |-> v, date |-> d] :
            v \in Values, d \in IF svc = "vstaking" THEN LagTimes(t) ELSE {t}}

\* the Moonwell markets on the two target chains, in upstream order
MoonwellMarkets ==
    <<[network |-> "moonbeam", symbol |-> "USDC"], [network |-> "base", symbol |-> "USDC"]>>

\* the latest daily snapshot joined to a market: none, or a reading
MoonwellLatest(t) ==
    {[has |-> FALSE, baseSupplyApy |-> None, baseBorrowApy |-> None, totalLiquidityUSD |-> None,
      totalSuppliesUSD |-> None, totalBorrowsUSD |-> None, timestamp |-> None]}
    \cup {[has |-> TRUE, baseSupplyApy |-> v, baseBorrowApy |-> v, totalLiquidityUSD |-> v,
           totalSuppliesUSD |-> 1, totalBorrowsUSD |-> v, timestamp |-> t] : v \in Values}

\* the rows of the rendered Hydration table
HydrationRows ==
    {<<>>} \cup {<<[assetSymbol |-> "DOT", feeAndFarmApr |-> v, tvlUsd |-> v]>> : v \in Values}

(* ------------------------------ crawlers ------------------------------ *)
\* VStakingCrawler.fetchRaw / FarmingCrawler.fetchRaw: one request per
\* configured token, a failed one is logged and skipped
RECURSIVE fetchRawBifrost(_, _)
fetchRawBifrost(tokens, resp) ==
    IF tokens = <<>> THEN <<>>
    ELSE LET rest == fetchRawBifrost(Tail(tokens), Tail(resp)) IN
         IF Head(resp).ok
         THEN <<[token |-> Head(tokens), avg |-> Head(resp).avg, date |-> Head(resp).date]>> \o rest
         ELSE rest

\* VStakingCrawler.toSnapshot
toSnapshotVStaking(raw) ==
    [protocol |-> "bifrost", network |-> "polkadot", poolType |-> "vstaking",
     assetSymbol |-> raw.token, supplyApy |-> raw.avg, dataTimestamp |-> raw.date]

\* FarmingCrawler.toSnapshot: dataTimestamp is new Date()
toSnapshotFarming(raw, t) ==
    [protocol |-> "bifrost", network |-> "polkadot", poolType |-> "farming",
     assetSymbol |-> raw.token, supplyApy |-> raw.avg, dataTimestamp |-> t]

\* MoonwellMarketsCrawler.toSnapshot: rates are percentages of the raw
\* decimal; without a latest snapshot the metrics are undefined and
\* dataTimestamp is new Date()
toSnapshotMoonwell(raw, t) ==
    [protocol |-> "moonwell", network |-> raw.market.network, poolType |-> "lending",
     assetSymbol |-> raw.market.symbol,
     supplyApy |-> IF raw.latest.has THEN raw.latest.baseSupplyApy * 100 ELSE None,
     borrowApy |-> IF raw.latest.has THEN raw.latest.baseBorrowApy * 100 ELSE None,
     tvlUsd |-> IF raw.latest.has THEN raw.latest.totalLiquidityUSD ELSE None,
     utilizationRate |-> IF raw.latest.has /\ raw.latest.totalSuppliesUSD > 0
                         THEN raw.latest.totalBorrowsUSD \div raw.latest.totalSuppliesUSD
                         ELSE None,
     dataTimestamp |-> IF raw.latest.has THEN raw.latest.timestamp ELSE t]

\* HydrationOmnipoolCrawler.toSnapshot: network is Network.HYDRATION
toSnapshotHydration(raw, t) ==
    [protocol |-> "hydration", network |-> Undefined, poolType |-> "dex",
     assetSymbol |-> raw.assetSymbol, totalApy |-> raw.feeAndFarmApr, tvlUsd |-> raw.tvlUsd,
     dataTimestamp |-> t]

\* the data[] a crawl that does not throw can return at instant t
CrawlData(svc, t) ==
    CASE svc = "vstaking" ->
           {LET raw == fetchRawBifrost(Tokens(svc), resp)
            IN [i \in DOMAIN raw |-> toSnapshotVStaking(raw[i])] :
              resp \in [DOMAIN Tokens(svc) -> BifrostResponses(svc, t)]}
      [] svc = "farming" ->
           {LET raw == fetchRawBifrost(Tokens(svc), resp)
            IN [i \in DOMAIN raw |-> toSnapshotFarming(raw[i], t)] :
              resp \in [DOMAIN Tokens(svc) -> BifrostResponses(svc, t)]}
      [] svc = "markets" ->
           {[i \in DOMAIN MoonwellMarkets |->
                toSnapshotMoonwell([market |-> MoonwellMarkets[i], latest |-> latest[i]], t)] :
              latest \in [DOMAIN MoonwellMarkets -> MoonwellLatest(t)]}
      [] svc = "pools" ->
           {[i \in DOMAIN rows |-> toSnapshotHydration(rows[i], t)] : rows \in HydrationRows}

\* the network the crawler reports in its CrawlResult
CrawlerNetwork(svc) ==
    CASE svc \in {"vstaking", "farming"} -> "polkadot"
      [] svc = "markets" -> "moonbeam"
      [] svc = "pools" -> Undefined

ProtocolOf(svc) ==
    CASE svc \in {"vstaking", "farming"} -> "bifrost"
      [] svc = "markets" -> "moonwell"
      [] svc = "pools" -> "hydration"

PoolTypeOf(svc) ==
    CASE svc = "vstaking" -> "vstaking"
      [] svc = "farming" -> "farming"
      [] svc = "markets" -> "lending"
      [] svc = "pools" -> "dex"

(* ---------------------------- snapshot store -------------------------- *)
\* a stored document: every kept column, None where it has no value
Doc(s) == [f \in Fields |-> Get(s, f)]

\* a $set that leaves out the keys whose value is undefined
ApplySetIgnoringUndefined(d, s) ==
    [f \in Fields |-> IF f \in DOMAIN s /\ ~(f \in MetricFields /\ s[f] = None)
                      THEN s[f] ELSE d[f]]

\* { $set: s } on document d: every key of s replaces the column, a key
\* whose value is undefined included (it is sent as null)
ApplySet(d, s) == [f \in Fields |-> IF f \in DOMAIN s THEN s[f] ELSE d[f]]

Matches(d, filter) == \A f \in DOMAIN filter : d[f] = filter[f]

\* the same index declared without { unique: true }: nothing is refused
NonUniqueIndexHolds(docs) == TRUE

\* @Index([network, poolType, assetSymbol, snapshotDate], { unique: true })
UniqueIndexHolds(docs) ==
    \A i, j \in DOMAIN docs : i # j => IndexKey(docs[i]) # IndexKey(docs[j])

\* repository.findOneAndUpdate(filter, { $set: s }, { upsert: true }):
\* the first matching document is updated in place, or a document made of
\* the filter and s is inserted; a write that breaks the unique index is
\* refused with a duplicate-key error
findOneAndUpdate(docs, filter, s) ==
    LET hits == {i \in DOMAIN docs : Matches(docs[i], filter)}
        next == IF hits # {}
                THEN LET i == CHOOSE k \in hits : \A m \in hits : k <= m
                     IN [docs EXCEPT ![i] = ApplySet(docs[i], s)]
                ELSE Append(docs, ApplySet(Doc(filter), s))
    IN IF UniqueIndexHolds(next)
       THEN [ok |-> TRUE, docs |-> next]
       ELSE [ok |-> FALSE, docs |-> docs]

(* ------------------------------- state -------------------------------- *)
VARIABLES
    now,        \* the wall clock, an instant
    store,      \* collection -> its documents, in insertion order
    runs,       \* every call of an ingestion method, in the order of the calls
    crawlLogs,  \* the crawl_logs collection, in insertion order
    ticks,      \* every call of runScheduledCrawl
    written,    \* history: collection -> index key -> the last snapshot object
                \* an acknowledged upsert wrote under that key
    response,   \* the last answer of the read side: the call, its filter, its result
    cache,      \* the metadata cache: aggregation name -> its entry, <<>> without one
    metaCalls,  \* history: every call of a distinct-value aggregation
    crawl,      \* a call of a crawler's crawl() followed step by step, <<>> without one
    logCall     \* a call of ActivityLogService.record followed step by step, <<>> without one

\* the state of the metadata endpoints
metaVars == <<cache, metaCalls>>

\* the state the ingestion side never touches
others == <<response, metaVars, crawl, logCall>>

vars == <<now, store, runs, crawlLogs, ticks, written, others>>

Settled == {"fulfilled", "rejected"}

RunIds == DOMAIN runs

\* a call of crawlVStaking / crawlFarming / crawlMarkets / crawlPools that
\* has just reached `await crawler.crawl()`; tick is 0 for a manual trigger;
\* prior (the calls already settled) and upsertDay (the UTC day on which the
\* call entered upsertSnapshots) record the history the properties speak of
NewRun(svc, tick) ==
    [svc |-> svc, pc |-> "crawling", data |-> <<>>, i |-> 0, dateKey |-> None,
     stamp |-> None, tick |-> tick, error |-> "",
     prior |-> {q \in RunIds : runs[q].pc \in Settled}, upsertDay |-> None]

\* the names the metadata cache is keyed by
Aggregations == {"parachains", "protocol-types", "tokens"}

\* no read request served yet, the metadata cache empty
OthersInit ==
    /\ response = <<>>
    /\ cache = [name \in Aggregations |-> <<>>]
    /\ metaCalls = <<>>
    /\ crawl = <<>>
    /\ logCall = <<>>

Init ==
    /\ now = 0
    /\ store = [c \in Collections |-> <<>>]
    /\ runs = <<>>
    /\ crawlLogs = <<>>
    /\ ticks = <<>>
    /\ written = [c \in Collections |-> <<>>]
    /\ OthersInit

(* -------------------------- ingestion services ------------------------ *)
\* whether the service's upsertSnapshots stamps snapshotDate and updatedAt
StampsDay(svc) == svc \in {"vstaking", "farming", "markets"}

\* upsertSnapshots, before the loop: dateKey = getUtcDateKey(), now = new Date()
BeginUpsert(run, data, t) ==
    [run EXCEPT !.data = data, !.i = 1, !.pc = "upserting", !.upsertDay = getUtcDateKey(t),
                !.dateKey = IF StampsDay(run.svc) THEN getUtcDateKey(t) ELSE None,
                !.stamp = IF StampsDay(run.svc) THEN t ELSE None]

\* the snapshot object handed to $set
StampedSnapshot(run, snapshot) ==
    IF StampsDay(run.svc)
    THEN [f \in DOMAIN snapshot \cup {"snapshotDate", "updatedAt"} |->
            CASE f = "snapshotDate" -> run.dateKey
              [] f = "updatedAt" -> run.stamp
              [] OTHER -> snapshot[f]]
    ELSE snapshot

\* the filter of the upsert
UpsertFilter(run, snapshot) ==
    IF StampsDay(run.svc)
    THEN [network |-> snapshot.network, poolType |-> snapshot.poolType,
          assetSymbol |-> snapshot.assetSymbol, snapshotDate |-> run.dateKey]
    ELSE [network |-> snapshot.network, poolType |-> snapshot.poolType,
          assetSymbol |-> snapshot.assetSymbol, dataTimestamp |-> snapshot.dataTimestamp]

\* ActivityLogService.recordSuccess -> record: the CrawlLog document
SuccessLog(r, run) ==
    [run |-> r, protocol |-> ProtocolOf(run.svc), network |-> CrawlerNetwork(run.svc),
     poolType |-> PoolTypeOf(run.svc), itemsFound |-> Len(run.data),
     success |-> TRUE, errorMessage |-> ""]

\* ActivityLogService.recordFailure -> record: the CrawlLog document
FailureLog(r, run, message) ==
    [run |-> r, protocol |-> ProtocolOf(run.svc), network |-> CrawlerNetwork(run.svc),
     poolType |-> PoolTypeOf(run.svc), itemsFound |-> 0,
     success |-> FALSE, errorMessage |-> message]

\* the history of acknowledged writes with the write under key added
Record(log, key, snapshot) ==
    IF \E i \in DOMAIN log : log[i].key = key
    THEN [i \in DOMAIN log |-> IF log[i].key = key THEN [key |-> key, snapshot |-> snapshot] ELSE log[i]]
    ELSE Append(log, [key |-> key, snapshot |-> snapshot])

\* a manual trigger: GET /bifrost/crawl/vstaking, /bifrost/crawl/farming,
\* /moonwell/crawl/markets, /hydration/crawl/pools
StartRun(svc) ==
    /\ Len(runs) < MaxRuns
    /\ runs' = Append(runs, NewRun(svc, 0))
    /\ UNCHANGED <<now, store, crawlLogs, ticks, written, others>>

\* a crawl that hands the items normalized so far to upsertSnapshots before
\* its error surfaces
CrawlThrowsAfterUpsert(r) ==
    /\ runs[r].pc = "crawling"
    /\ \E data \in CrawlData(runs[r].svc, now) :
         /\ Len(data) > 0
         /\ runs' = [runs EXCEPT ![r] = [BeginUpsert(@, data, now) EXCEPT !.error = "crawl"]]
    /\ UNCHANGED <<now, store, crawlLogs, ticks, written, others>>

\* crawler.crawl() rejects: the service method has no catch, the call rejects
CrawlThrows(r) ==
    /\ runs[r].pc = "crawling"
    /\ runs' = [runs EXCEPT ![r].pc = "rejected", ![r].error = "crawl"]
    /\ UNCHANGED <<now, store, crawlLogs, ticks, written, others>>

\* a service method that goes from the crawl straight to recordSuccess
\* and leaves upsertSnapshots out
CrawlReturnsSkipsUpsert(r) ==
    /\ runs[r].pc = "crawling"
    /\ \E data \in CrawlData(runs[r].svc, now) :
         runs' = [runs EXCEPT ![r].data = data, ![r].pc = "logging"]
    /\ UNCHANGED <<now, store, crawlLogs, ticks, written, others>>

\* crawler.crawl() resolves: with data the service enters upsertSnapshots
\* and issues the first findOneAndUpdate, without data it goes on to
\* recordSuccess
CrawlReturns(r) ==
    /\ runs[r].pc = "crawling"
    /\ \E data \in CrawlData(runs[r].svc, now) :
         runs' = [runs EXCEPT ![r] =
                    IF Len(data) > 0 THEN BeginUpsert(@, data, now)
                    ELSE [@ EXCEPT !.pc = "logging"]]
    /\ UNCHANGED <<now, store, crawlLogs, ticks, written, others>>

\* the awaited findOneAndUpdate of item i resolves, or rejects with the
\* duplicate-key error; the loop goes on to the next item or ends
UpsertReturns(r) ==
    /\ runs[r].pc = "upserting"
    /\ LET run == runs[r]
           snapshot == run.data[run.i]
           c == RepoOf(run.svc)
           res == findOneAndUpdate(store[c], UpsertFilter(run, snapshot),
                                   StampedSnapshot(run, snapshot))
       IN IF res.ok
          THEN /\ store' = [store EXCEPT ![c] = res.docs]
               /\ written' = [written EXCEPT ![c] =
                                Record(@, IndexKey(StampedSnapshot(run, snapshot)),
                                       StampedSnapshot(run, snapshot))]
               /\ runs' = [runs EXCEPT ![r] =
                            IF run.i < Len(run.data) THEN [@ EXCEPT !.i = run.i + 1]
                            ELSE [@ EXCEPT !.pc = "logging"]]
          ELSE /\ UNCHANGED <<store, written>>
               /\ runs' = [runs EXCEPT ![r].pc = "rejected", ![r].error = "E11000"]
    /\ UNCHANGED <<now, crawlLogs, ticks, others>>

\* the awaited findOneAndUpdate rejects because the store is unreachable
UpsertFails(r) ==
    /\ runs[r].pc = "upserting"
    /\ runs' = [runs EXCEPT ![r].pc = "rejected", ![r].error = "store"]
    /\ UNCHANGED <<now, store, crawlLogs, ticks, written, others>>

\* ActivityLogService.record: crawlLogRepo.save resolves, the call returns
SaveReturns(r) ==
    /\ runs[r].pc = "logging"
    /\ crawlLogs' = Append(crawlLogs, SuccessLog(r, runs[r]))
    /\ runs' = [runs EXCEPT ![r].pc = "fulfilled"]
    /\ UNCHANGED <<now, store, ticks, written, others>>

\* ActivityLogService.record: crawlLogRepo.save rejects, the error is
\* logged and swallowed, the call returns
SaveFails(r) ==
    /\ runs[r].pc = "logging"
    /\ runs' = [runs EXCEPT ![r].pc = "fulfilled", ![r].error = "log"]
    /\ UNCHANGED <<now, store, crawlLogs, ticks, written, others>>

\* time passes
AdvanceClock ==
    /\ now < MaxTime
    /\ now' = now + 1
    /\ UNCHANGED <<store, runs, crawlLogs, ticks, written, others>>

Next ==
    \/ \E svc \in Services : StartRun(svc)
    \/ \E r \in RunIds : CrawlThrows(r)
    \/ \E r \in RunIds : CrawlReturns(r)
    \/ \E r \in RunIds : UpsertReturns(r)
    \/ \E r \in RunIds : UpsertFails(r)
    \/ \E r \in RunIds : SaveReturns(r)
    \/ \E r \in RunIds : SaveFails(r)
    \/ AdvanceClock

Spec == Init /\ [][Next]_vars

(* ------------------------------ scheduler ----------------------------- *)
\* a combinator that fulfils as soon as one promise has fulfilled and
\* rejects only when all have rejected
PromiseAny(states) ==
    IF \E i \in DOMAIN states : states[i] = "fulfilled" THEN "fulfilled"
    ELSE IF \A i \in DOMAIN states : states[i] = "rejected" THEN "rejected"
    ELSE "pending"

\* BifrostService.crawlAll: Promise.all over crawlVStaking and crawlFarming
\* rejects with the first rejection and fulfils when both have fulfilled
PromiseAll(states) ==
    IF \E i \in DOMAIN states : states[i] = "rejected" THEN "rejected"
    ELSE IF \A i \in DOMAIN states : states[i] = "fulfilled" THEN "fulfilled"
    ELSE "pending"

\* the three promises runScheduledCrawl hands to Promise.allSettled
TickPromises(tk) ==
    <<PromiseAll(<<runs[tk.vstaking].pc, runs[tk.farming].pc>>),
      IF runs[tk.markets].pc \in Settled THEN runs[tk.markets].pc ELSE "pending",
      IF runs[tk.pools].pc \in Settled THEN runs[tk.pools].pc ELSE "pending">>

\* Promise.all in place of Promise.allSettled: the await ends at the first
\* rejection
FailFast(states) ==
    \/ \E i \in DOMAIN states : states[i] = "rejected"
    \/ \A i \in DOMAIN states : states[i] = "fulfilled"

\* Promise.allSettled resolves once every promise has settled
AllSettled(states) == \A i \in DOMAIN states : states[i] \in Settled

\* runScheduledCrawl up to its await: crawlAll starts both Bifrost crawls,
\* then crawlMarkets and crawlPools start
TickStart ==
    /\ Len(ticks) < MaxTicks
    /\ LET k == Len(ticks) + 1
           n == Len(runs)
       IN /\ runs' = runs \o <<NewRun("vstaking", k), NewRun("farming", k),
                                NewRun("markets", k), NewRun("pools", k)>>
          /\ ticks' = Append(ticks, [pc |-> "waiting", vstaking |-> n + 1, farming |-> n + 2,
                                     markets |-> n + 3, pools |-> n + 4, summary |-> <<>>])
    /\ UNCHANGED <<now, store, crawlLogs, written, others>>

\* the await of Promise.allSettled resumes: the summary of Bifrost,
\* Moonwell and Hydration is logged and runScheduledCrawl returns
TickFinish(k) ==
    /\ ticks[k].pc = "waiting"
    /\ AllSettled(TickPromises(ticks[k]))
    /\ ticks' = [ticks EXCEPT ![k].pc = "done", ![k].summary = TickPromises(ticks[k])]
    /\ UNCHANGED <<now, store, runs, crawlLogs, written, others>>

NextTick ==
    \/ TickStart
    \/ \E r \in RunIds : CrawlThrows(r)
    \/ \E r \in RunIds : CrawlReturns(r)
    \/ \E r \in RunIds : UpsertReturns(r)
    \/ \E r \in RunIds : UpsertFails(r)
    \/ \E r \in RunIds : SaveReturns(r)
    \/ \E r \in RunIds : SaveFails(r)
    \/ \E k \in DOMAIN ticks : TickFinish(k)

SpecTick == Init /\ [][NextTick]_vars

(* ------------------------------ read side ----------------------------- *)
\* PoolFilterDto: limit defaults to 50
DefaultLimit == 50

\* fetchLatestSnapshots: find({ ..., take: 1500 })
TakeLimit == 1500

\* String.prototype.toUpperCase on the asset symbols of the model
ToUpperCase(str) ==
    CASE str \in {"vDOT", "vdot", "VDOT"} -> "VDOT"
      [] str \in {"usdc", "USDC"} -> "USDC"
      [] str \in {"dot", "DOT"} -> "DOT"
      [] OTHER -> str

\* the first n elements of a sequence
Take(seq, n) == SubSeq(seq, 1, IF Len(seq) < n THEN Len(seq) ELSE n)

\* the where clause fetchLatestSnapshots and fetchHistorySnapshots share
WhereCommon(filter, doc) ==
    /\ "asset" \in DOMAIN filter => doc.assetSymbol = ToUpperCase(filter.asset)
    /\ "poolType" \in DOMAIN filter => doc.poolType = filter.poolType
    /\ "network" \in DOMAIN filter => doc.network = filter.network
    /\ "minApy" \in DOMAIN filter => (doc.totalApy # None /\ doc.totalApy >= filter.minApy)

\* the date range of fetchHistorySnapshots on dataTimestamp
WhereRange(filter, doc) ==
    /\ "from" \in DOMAIN filter => doc.dataTimestamp >= filter.from
    /\ "to" \in DOMAIN filter => doc.dataTimestamp <= filter.to

\* the key fetchLatestSnapshots keeps one document for
DedupKey(doc) == <<doc.protocol, doc.poolType, doc.assetSymbol>>

\* PoolsService.selectSources
selectSources(filter) ==
    IF "protocol" \notin DOMAIN filter THEN <<"bifrost_snapshots", "moonwell_snapshots", "hydration_snapshots">>
    ELSE CASE filter.protocol = "bifrost" -> <<"bifrost_snapshots">>
           [] filter.protocol = "moonwell" -> <<"moonwell_snapshots">>
           [] filter.protocol = "hydration" -> <<"hydration_snapshots">>
           [] OTHER -> <<"bifrost_snapshots", "moonwell_snapshots", "hydration_snapshots">>

\* the loop over docs with the `seen` map: the first document of every key
RECURSIVE FirstPerKey(_, _)
FirstPerKey(docs, seen) ==
    LET fresh == {i \in DOMAIN docs : DedupKey(docs[i]) \notin seen}
    IN IF fresh = {} THEN <<>>
       ELSE LET i == CHOOSE k \in fresh : \A m \in fresh : k <= m
            IN <<docs[i]>> \o FirstPerKey(SubSeq(docs, i + 1, Len(docs)),
                                          seen \cup {DedupKey(docs[i])})

\* deduplication first, the filters on what is left
fetchLatestThenFilter(docs, filter) ==
    SelectSeq(FirstPerKey(Take(SortByKey(docs, "dataTimestamp", FALSE), TakeLimit), {}),
              LAMBDA d : WhereCommon(filter, d))

\* PoolsService.fetchLatestSnapshots: newest first, at most 1500, then the
\* first document of every key
fetchLatestSnapshots(docs, filter) ==
    LET hits == SelectSeq(docs, LAMBDA d : WhereCommon(filter, d))
        found == Take(SortByKey(hits, "dataTimestamp", FALSE), TakeLimit)
    IN FirstPerKey(found, {})

\* PoolsService.fetchHistorySnapshots: oldest first, every match
fetchHistorySnapshots(docs, filter) ==
    SortByKey(SelectSeq(docs, LAMBDA d : WhereCommon(filter, d) /\ WhereRange(filter, d)),
              "dataTimestamp", TRUE)

\* PoolsService.toSummary, on the columns the model keeps
toSummary(doc) == [f \in Fields |-> doc[f]]

\* the concatenation of a sequence of sequences
RECURSIVE Flatten(_)
Flatten(seqs) == IF seqs = <<>> THEN <<>> ELSE Head(seqs) \o Flatten(Tail(seqs))

\* the comparator turned round: ascending on sortBy, then the first limit entries
applySortAscending(pools, filter) ==
    LET sortField == IF "sortBy" \in DOMAIN filter THEN filter.sortBy ELSE "totalApy"
    IN Take(SortByKey(pools, sortField, TRUE),
            IF "limit" \in DOMAIN filter THEN filter.limit ELSE DefaultLimit)

\* PoolsService.applySortAndLimit: descending on sortBy, a missing value
\* sorts as -Infinity, then the first limit entries
applySortAndLimit(pools, filter) ==
    LET sortField == IF "sortBy" \in DOMAIN filter THEN filter.sortBy ELSE "totalApy"
    IN Take(SortByKey(pools, sortField, FALSE),
            IF "limit" \in DOMAIN filter THEN filter.limit ELSE DefaultLimit)

\* PoolsService.getAllPools, the results.flat() of the per-source fetches
latestSummaries(st, filter) ==
    LET sources == selectSources(filter)
        per == [k \in DOMAIN sources |->
                  LET docs == fetchLatestSnapshots(st[sources[k]], filter)
                  IN [i \in DOMAIN docs |-> toSummary(docs[i])]]
    IN Flatten(per)

\* PoolsService.getAllPools on the store st
getAllPools(st, filter) == applySortAndLimit(latestSummaries(st, filter), filter)

\* PoolsService.getPoolsHistory on the store st
getPoolsHistory(st, filter) ==
    LET sources == selectSources(filter)
        per == [k \in DOMAIN sources |->
                  LET docs == fetchHistorySnapshots(st[sources[k]], filter)
                  IN [i \in DOMAIN docs |-> toSummary(docs[i])]]
    IN SortByKey(Flatten(per), "dataTimestamp", TRUE)

\* the query a request without parameters becomes: the defaults of PoolFilterDto
NoFilter == [limit |-> DefaultLimit, sortBy |-> "totalApy"]

(* ---------------------------- read requests --------------------------- *)
\* documents in the store a read request finds
MaxDocs == 2

\* the document the first upsert of a snapshot by service svc inserts when
\* the service enters upsertSnapshots at instant t
InsertedDoc(svc, snapshot, t) ==
    LET call == [svc |-> svc, pc |-> "crawling", data |-> <<>>, i |-> 0, dateKey |-> None,
                 stamp |-> None, upsertDay |-> None]
        run == BeginUpsert(call, <<snapshot>>, t)
    IN ApplySet(Doc(UpsertFilter(run, snapshot)), StampedSnapshot(run, snapshot))

\* every document one run of svc can insert
QueryDocs(svc) ==
    UNION {UNION {{InsertedDoc(svc, data[i], t) : i \in DOMAIN data} : data \in CrawlData(svc, t)} :
             t \in Times}

\* the collection a document of a protocol is stored in
CollectionOf(protocol) ==
    CASE protocol = "bifrost" -> "bifrost_snapshots"
      [] protocol = "moonwell" -> "moonwell_snapshots"
      [] protocol = "hydration" -> "hydration_snapshots"

\* the store holding the documents of docs, each in its collection, in order
StoreOf(docs) ==
    [c \in Collections |-> SelectSeq(docs, LAMBDA d : CollectionOf(d.protocol) = c)]

\* five Hydration pools whose fee-and-farm APR reads 5, nothing, 10, 3, 8
ExampleRows ==
    <<[assetSymbol |-> "DOT", feeAndFarmApr |-> 5, tvlUsd |-> 1],
      [assetSymbol |-> "HDX", feeAndFarmApr |-> None, tvlUsd |-> 1],
      [assetSymbol |-> "GDOT", feeAndFarmApr |-> 10, tvlUsd |-> 1],
      [assetSymbol |-> "WETH", feeAndFarmApr |-> 3, tvlUsd |-> 1],
      [assetSymbol |-> "USDT", feeAndFarmApr |-> 8, tvlUsd |-> 1]>>

ExampleStore ==
    StoreOf([i \in DOMAIN ExampleRows |-> InsertedDoc("pools", toSnapshotHydration(ExampleRows[i], 0), 0)])

\* the stores a read request can find: up to MaxDocs documents the services
\* can have written, no two with the same index tuple, and the example
QueryStores ==
    LET all == UNION {QueryDocs(svc) : svc \in Services}
        seqs == UNION {[1..n -> all] : n \in 0..MaxDocs}
    IN {StoreOf(docs) : docs \in {q \in seqs : \A c \in Collections : UniqueIndexHolds(StoreOf(q)[c])}}
       \cup {ExampleStore}

\* the query strings of GET /pools the model sends
LatestFilters ==
    LET where == {<<>>} \cup {[asset |-> a] : a \in {"usdc", "vDOT", "DOT"}}
                 \cup {[poolType |-> "lending"], [network |-> "base"], [network |-> "polkadot"],
                       [minApy |-> 2], [protocol |-> "moonwell"], [protocol |-> "acala"],
                       [network |-> "moonbeam", asset |-> "USDC"]}
        order == {NoFilter, [limit |-> 1, sortBy |-> "supplyApy"], [limit |-> 3, sortBy |-> "totalApy"]}
    IN {[f \in DOMAIN w \cup DOMAIN o |-> IF f \in DOMAIN w THEN w[f] ELSE o[f]] :
           w \in where, o \in order}

\* the query strings of GET /pools/history the model sends
HistoryFilters ==
    LET where == {<<>>, [asset |-> "vDOT"], [asset |-> "usdc"], [network |-> "base"],
                  [protocol |-> "moonwell"]}
        range == {[from |-> a, to |-> b] : a \in Times, b \in Times}
    IN {[f \in DOMAIN w \cup DOMAIN o |-> IF f \in DOMAIN w THEN w[f] ELSE o[f]] :
           w \in where, o \in range}

\* the sets of collections whose find() rejects while a request is served
Outages == {{}} \cup {{c} : c \in Collections}

\* a loop that catches the rejection of a find() and goes on
readFailureSwallowed(sources, down) == ""

\* the for loop over the selected repositories: the first find() that
\* rejects, in the order of the sources, ends it; "" when none does
readFailure(sources, down) ==
    IF \A k \in DOMAIN sources : sources[k] \notin down THEN ""
    ELSE sources[CHOOSE k \in DOMAIN sources :
                   sources[k] \in down /\ \A m \in 1..(k - 1) : sources[m] \notin down]

\* what the caller of a read gets: the rejection of the failed find(), or the result
Answer(op, filter, down, result) ==
    LET error == readFailure(selectSources(filter), down)
    IN [op |-> op, filter |-> filter, down |-> down, rejected |-> error # "",
        error |-> error, result |-> IF error # "" THEN <<>> ELSE result]

\* GET /pools: PoolsController.getPools; a request reads the store and
\* changes nothing, so each behaviour serves one request
GetAllPools(filter, down) ==
    /\ response = <<>>
    /\ response' = Answer("getAllPools", filter, down, getAllPools(store, filter))
    /\ UNCHANGED <<now, store, runs, crawlLogs, ticks, written, metaVars, crawl, logCall>>

\* GET /pools/history: PoolsController.getPoolsHistory
GetPoolsHistory(filter, down) ==
    /\ response = <<>>
    /\ response' = Answer("getPoolsHistory", filter, down, getPoolsHistory(store, filter))
    /\ UNCHANGED <<now, store, runs, crawlLogs, ticks, written, metaVars, crawl, logCall>>

InitQuery ==
    /\ now = MaxTime
    /\ store \in QueryStores
    /\ runs = <<>>
    /\ crawlLogs = <<>>
    /\ ticks = <<>>
    /\ written = [c \in Collections |-> <<>>]
    /\ OthersInit

NextQuery ==
    \/ \E filter \in LatestFilters, down \in Outages : GetAllPools(filter, down)
    \/ \E filter \in HistoryFilters, down \in Outages : GetPoolsHistory(filter, down)

SpecQuery == InitQuery /\ [][NextQuery]_vars

\* days of daily records in the short histories of SpecLong
ShortHistory == 7

\* the record of the Bifrost farming pool of vDOT, written on day 0 by a
\* crawlFarming run and not since (the pool left config/pools.yaml)
OldFarmingDoc ==
    InsertedDoc("farming", toSnapshotFarming([token |-> "vDOT", avg |-> 1, date |-> 0], 0), 0)

\* the record crawlVStaking writes for vDOT on day d
DailyDoc(d) ==
    InsertedDoc("vstaking",
                toSnapshotVStaking([token |-> "vDOT", avg |-> 1, date |-> DayLen * d]),
                DayLen * d)

\* bifrost_snapshots after the farming run of day 0 and n days of vstaking runs
LongHistory(n) == <<OldFarmingDoc>> \o [d \in 1..n |-> DailyDoc(d)]

\* short histories, and the two around the take of fetchLatestSnapshots
HistoryLengths == (0..ShortHistory) \cup {TakeLimit - 1, TakeLimit}

\* the query strings of GET /pools sent to a long history
LongFilters ==
    LET where == {<<>>, [poolType |-> "farming"], [poolType |-> "vstaking"],
                  [network |-> "polkadot"], [protocol |-> "bifrost"], [protocol |-> "moonwell"]}
        order == {NoFilter, [limit |-> 3, sortBy |-> "supplyApy"]}
    IN {[f \in DOMAIN w \cup DOMAIN o |-> IF f \in DOMAIN w THEN w[f] ELSE o[f]] :
           w \in where, o \in order}

InitLong ==
    /\ now = MaxTime
    /\ store \in {StoreOf(LongHistory(n)) : n \in HistoryLengths}
    /\ runs = <<>>
    /\ crawlLogs = <<>>
    /\ ticks = <<>>
    /\ written = [c \in Collections |-> <<>>]
    /\ OthersInit

NextLong == \E filter \in LongFilters : GetAllPools(filter, {})

SpecLong == InitLong /\ [][NextLong]_vars

(* --------------------------- metadata endpoints ------------------------ *)
\* the metadata time-to-live (5 minutes), in instants
CacheTtl == 2

\* how far the clock runs while metadata is served: past the expiry of an
\* entry stored after the first instant
MaxCacheTime == 3

MaxCalls == 3

MaxCacheRuns == 1

\* every stored document of every collection
AllDocs(st) == UNION {{st[c][i] : i \in DOMAIN st[c]} : c \in Collections}

\* PoolsService.getDistinctParachains: one entry per network, with the
\* protocols seen on it
getDistinctParachains(st) ==
    {[network |-> n, protocols |-> {d.protocol : d \in {e \in AllDocs(st) : e.network = n}}] :
        n \in {d.network : d \in AllDocs(st)}}

\* PoolsService.getDistinctProtocolTypes: one entry per pool type
getDistinctProtocolTypes(st) == {[poolType |-> d.poolType] : d \in AllDocs(st)}

\* PoolsService.getDistinctTokens: one entry per asset symbol, with the
\* protocols, networks and pool types it appears in
getDistinctTokens(st) ==
    {[symbol |-> a,
      protocols |-> {d.protocol : d \in {e \in AllDocs(st) : e.assetSymbol = a}},
      networks |-> {d.network : d \in {e \in AllDocs(st) : e.assetSymbol = a}},
      poolTypes |-> {d.poolType : d \in {e \in AllDocs(st) : e.assetSymbol = a}}] :
        a \in {d.assetSymbol : d \in AllDocs(st)}}

\* the store query behind the aggregation called name
Aggregate(name, st) ==
    CASE name = "parachains" -> getDistinctParachains(st)
      [] name = "protocol-types" -> getDistinctProtocolTypes(st)
      [] name = "tokens" -> getDistinctTokens(st)

\* an expiry no call of the horizon reaches
ExpiryBeyondHorizon(t) == t + CacheTtl + MaxCacheTime

\* the expiry timestamp an entry stored at instant t carries
ExpiryOf(t) == t + CacheTtl

\* an entry that is never served
NeverFresh(entry, t) == FALSE

\* the freshness check on read: an entry is served until its expiry
IsFresh(entry, t) == entry # <<>> /\ t < entry.expiresAt

\* GET /pools/parachains, /pools/protocol-types, /pools/tokens through
\* PoolsService.getDistinctParachains, getDistinctProtocolTypes and
\* getDistinctTokens. A call of a cached aggregation: a fresh entry is returned as it is; a
\* missing or expired one is replaced by the result of the store query, with
\* an expiry one time-to-live ahead. queried and stale record whether the
\* call touched the store and whether its result differs from what the store
\* would have given
CachedCall(name) ==
    /\ Len(metaCalls) < MaxCalls
    /\ LET hit == IsFresh(cache[name], now)
           value == IF hit THEN cache[name].value ELSE Aggregate(name, store)
       IN /\ cache' = IF hit THEN cache
                      ELSE [cache EXCEPT ![name] = [value |-> value, expiresAt |-> ExpiryOf(now)]]
          /\ metaCalls' = Append(metaCalls, [name |-> name, at |-> now, value |-> value,
                                             queried |-> ~hit,
                                             stale |-> value # Aggregate(name, store)])
    /\ UNCHANGED <<now, store, runs, crawlLogs, ticks, written, response, crawl, logCall>>

\* time passes while the endpoints are served
TimePasses ==
    /\ now < MaxCacheTime
    /\ now' = now + 1
    /\ UNCHANGED <<store, runs, crawlLogs, ticks, written, others>>

\* the metadata endpoints next to one ingestion call at a time
NextCache ==
    \/ \E name \in Aggregations : CachedCall(name)
    \/ TimePasses
    \/ \E svc \in Services : Len(runs) < MaxCacheRuns /\ StartRun(svc)
    \/ \E r \in RunIds : CrawlReturns(r)
    \/ \E r \in RunIds : UpsertReturns(r)
    \/ \E r \in RunIds : SaveReturns(r)

SpecCache == Init /\ [][NextCache]_vars

(* -------------------------- rendering crawlers ------------------------- *)
\* DEFAULT_OPTIONS.retries and DEFAULT_OPTIONS.retryDelayMs
DefaultRetries == 2

DefaultRetryDelayMs == 2000

MaxRetries == 2

\* the options a BaseCrawler is constructed with: the defaults, or retries overridden
CrawlerOptions ==
    {[retries |-> n, retryDelayMs |-> DefaultRetryDelayMs] : n \in 0..MaxRetries}
    \cup {[retries |-> DefaultRetries, retryDelayMs |-> DefaultRetryDelayMs]}

\* what extractData and toSnapshot make of a loaded page
PageItems == {<<>>, <<"a">>, <<"a", "b">>}

\* the loop condition one attempt short
LoopStopsEarly(attempt, retries) == attempt <= retries

\* BaseCrawler.crawl, the condition of the for loop
LoopContinues(attempt, retries) == attempt <= retries + 1

\* the same wait after every failed attempt
ConstantBackoff(retryDelayMs, attempt) == retryDelayMs

\* BaseCrawler.crawl, the argument of sleep
BackoffMs(retryDelayMs, attempt) == retryDelayMs * attempt

\* a browser that stays open when the attempt is over
LeaveOpen(open) == open

\* browser.close(): the browser of the attempt is gone
CloseBrowser(open) == IF open > 0 THEN open - 1 ELSE open

\* pages of the Hydration pool table
MaxPages == 3

\* the rows scrapeCurrentPage finds on page p: none, or the pool of the page
PageRows(p) ==
    LET symbol == CASE p = 1 -> "DOT" [] p = 2 -> "HDX" [] OTHER -> "GDOT"
    IN {<<>>} \cup {<<[assetSymbol |-> symbol, feeAndFarmApr |-> v, tvlUsd |-> v]>> : v \in Values}

\* what clickNextPage meets: no button with the text Next; a button with
\* aria-disabled, disabled or a class named disabled; an await that throws;
\* a button that is clicked
NextOutcomes == {"absent", "ariaDisabled", "isDisabled", "classDisabled", "error", "clicked"}

\* a clickNextPage that looks only for the button
clickNextPageUnlessAbsent(outcome) == outcome \notin {"absent", "error"}

\* HydrationOmnipoolCrawler.clickNextPage: true only when Next was clicked
clickNextPage(outcome) == outcome = "clicked"

\* a call of crawl() at its first statement. attempt counts the attempts
\* started, open the browsers launched and not closed, errors the error of
\* each failed attempt, waits the sleeps started, extracted the items of
\* the attempt that reached `return`; pending is what the code does once
\* the finally block is through. In scrapeAllPages pageNum is the loop's
\* counter, shown the page the site displays, visited the pages scraped,
\* pageRows the rows of each scrape, nexts what each clickNextPage met
NewCrawl(kind, options) ==
    [kind |-> kind, retries |-> options.retries, retryDelayMs |-> options.retryDelayMs,
     pc |-> "launch", attempt |-> 1, open |-> 0, launched |-> 0,
     errors |-> <<>>, waits |-> <<>>, lastError |-> <<>>, snapshots |-> <<>>,
     extracted |-> <<>>, pageNum |-> 0, shown |-> 0, visited |-> <<>>, pageRows |-> <<>>,
     allPools |-> <<>>, nexts |-> <<>>,
     pending |-> "none", outcome |-> "none", thrown |-> <<>>, result |-> <<>>]

\* BaseCrawler.crawl is called; a loop whose condition fails at once falls
\* through to `throw lastError`
BaseCrawl(options) ==
    /\ crawl = <<>>
    /\ crawl' = IF LoopContinues(1, options.retries) THEN NewCrawl("base", options)
                ELSE [NewCrawl("base", options) EXCEPT !.pc = "done", !.attempt = 0,
                                                         !.outcome = "threw"]
    /\ UNCHANGED <<now, store, runs, crawlLogs, ticks, written, response, metaVars, logCall>>

\* HydrationOmnipoolCrawler.crawl is called; the class takes no options
HydrationCrawl ==
    /\ crawl = <<>>
    /\ crawl' = NewCrawl("hydration", [retries |-> None, retryDelayMs |-> None])
    /\ UNCHANGED <<now, store, runs, crawlLogs, ticks, written, response, metaVars, logCall>>

\* the catch block. BaseCrawler: lastError = error, then sleep when
\* attempt <= retries, then finally. Hydration: log, rethrow, then finally
Caught(c, error) ==
    IF c.kind = "base"
    THEN IF c.attempt <= c.retries
         THEN [c EXCEPT !.errors = Append(@, error), !.lastError = error, !.pc = "sleep",
                        !.waits = Append(@, BackoffMs(c.retryDelayMs, c.attempt)),
                        !.pending = "loop"]
         ELSE [c EXCEPT !.errors = Append(@, error), !.lastError = error, !.pc = "close",
                        !.pending = "loop"]
    ELSE [c EXCEPT !.errors = Append(@, error), !.lastError = error, !.pc = "close",
                   !.pending = "throw"]

\* chromium.launch resolves
LaunchResolves ==
    /\ crawl # <<>> /\ crawl.pc = "launch"
    /\ crawl' = [crawl EXCEPT !.open = @ + 1, !.launched = @ + 1, !.pc = "page"]
    /\ UNCHANGED <<now, store, runs, crawlLogs, ticks, written, response, metaVars, logCall>>

\* chromium.launch rejects: browser is still null
LaunchRejects ==
    /\ crawl # <<>> /\ crawl.pc = "launch"
    /\ crawl' = Caught(crawl, <<"launch", crawl.attempt>>)
    /\ UNCHANGED <<now, store, runs, crawlLogs, ticks, written, response, metaVars, logCall>>

\* an attempt that pushes the snapshots of its page before it fails
PageFailsAfterPush ==
    /\ crawl # <<>> /\ crawl.pc = "page"
    /\ \E items \in PageItems :
          crawl' = Caught([crawl EXCEPT !.snapshots = @ \o items], <<"page", crawl.attempt>>)
    /\ UNCHANGED <<now, store, runs, crawlLogs, ticks, written, response, metaVars, logCall>>

\* newContext, newPage, goto, waitForTimeout, onPageLoaded, content,
\* extractData or toSnapshot throws (BaseCrawler); newPage or scrapeAllPages
\* throws (Hydration)
PageFails ==
    /\ crawl # <<>> /\ crawl.pc = "page"
    /\ crawl' = Caught(crawl, <<"page", crawl.attempt>>)
    /\ UNCHANGED <<now, store, runs, crawlLogs, ticks, written, response, metaVars, logCall>>

\* the page is loaded. BaseCrawler extracts it, pushes the snapshots and
\* reaches `return`; scrapeAllPages has the table of page 1 and enters its loop
PageSucceeds ==
    /\ crawl # <<>> /\ crawl.pc = "page"
    /\ \/ /\ crawl.kind = "base"
          /\ \E items \in PageItems :
                crawl' = [crawl EXCEPT !.snapshots = @ \o items, !.pc = "close",
                                       !.pending = "return", !.extracted = items,
                                       !.result = [itemsFound |-> Len(crawl.snapshots \o items),
                                                   data |-> crawl.snapshots \o items,
                                                   attempt |-> crawl.attempt]]
       \/ /\ crawl.kind = "hydration"
          /\ crawl' = [crawl EXCEPT !.pc = "scrape", !.pageNum = 1, !.shown = 1]
    /\ UNCHANGED <<now, store, runs, crawlLogs, ticks, written, response, metaVars, logCall>>

\* scrapeAllPages, the loop body up to the push: the rows of the page the
\* site shows are added to allPools
ScrapeCurrentPage ==
    /\ crawl # <<>> /\ crawl.pc = "scrape"
    /\ crawl.pageNum <= MaxPages
    /\ \E rows \in PageRows(crawl.shown) :
          crawl' = [crawl EXCEPT !.allPools = @ \o rows, !.visited = Append(@, crawl.shown),
                                 !.pageRows = Append(@, rows), !.pc = "next"]
    /\ UNCHANGED <<now, store, runs, crawlLogs, ticks, written, response, metaVars, logCall>>

\* scrollToBottom, waitForTimeout or scrapeCurrentPage throws: the error
\* leaves scrapeAllPages and reaches the catch block of crawl
ScrapeFails ==
    /\ crawl # <<>> /\ crawl.pc = "scrape"
    /\ crawl.pageNum <= MaxPages
    /\ crawl' = Caught(crawl, <<"scrape", crawl.attempt>>)
    /\ UNCHANGED <<now, store, runs, crawlLogs, ticks, written, response, metaVars, logCall>>

\* clickNextPage returns. true: pageNum++ and the loop goes round (the
\* site shows the next page when Next was clicked, which it can be on
\* every page but the last); false: break, scrapeAllPages returns allPools
ClickNextPage(outcome) ==
    /\ crawl # <<>> /\ crawl.pc = "next"
    /\ outcome = "clicked" => crawl.shown < MaxPages
    /\ crawl' = IF clickNextPage(outcome)
                THEN [crawl EXCEPT !.nexts = Append(@, outcome), !.pageNum = @ + 1,
                                   !.shown = IF outcome = "clicked" THEN @ + 1 ELSE @,
                                   !.pc = "scrape"]
                ELSE [crawl EXCEPT !.nexts = Append(@, outcome), !.snapshots = crawl.allPools,
                                   !.pc = "close", !.pending = "return"]
    /\ UNCHANGED <<now, store, runs, crawlLogs, ticks, written, response, metaVars, logCall>>

\* the sleep of the catch block is over
SleepElapses ==
    /\ crawl # <<>> /\ crawl.pc = "sleep"
    /\ crawl' = [crawl EXCEPT !.pc = "close"]
    /\ UNCHANGED <<now, store, runs, crawlLogs, ticks, written, response, metaVars, logCall>>

\* the finally block is through and the code goes where it was going.
\* BaseCrawler: the pending return, the next attempt, or `throw lastError`
\* after the loop. Hydration: the pending throw, or the result built from
\* the rows. rejected: browser.close() rejected, which BaseCrawler ignores
\* and Hydration lets escape
FinallyDone(rejected) ==
    /\ crawl # <<>> /\ crawl.pc = "close"
    /\ rejected => crawl.open > 0
    /\ LET c == [crawl EXCEPT !.open = CloseBrowser(@)]
       IN crawl' =
            IF c.kind = "base"
            THEN CASE c.pending = "return" -> [c EXCEPT !.pc = "done", !.outcome = "returned"]
                   [] LoopContinues(c.attempt + 1, c.retries) ->
                        [c EXCEPT !.pc = "launch", !.attempt = @ + 1, !.pending = "none"]
                   [] OTHER -> [c EXCEPT !.pc = "done", !.outcome = "threw",
                                         !.thrown = c.lastError]
            ELSE CASE rejected -> [c EXCEPT !.pc = "done", !.outcome = "threw",
                                            !.thrown = <<"close", c.attempt>>]
                   [] c.pending = "throw" -> [c EXCEPT !.pc = "done", !.outcome = "threw",
                                                       !.thrown = c.lastError]
                   [] OTHER ->
                        LET data == [i \in DOMAIN c.snapshots |->
                                       toSnapshotHydration(c.snapshots[i], now)]
                        IN [c EXCEPT !.pc = "done", !.outcome = "returned",
                                     !.result = [itemsFound |-> Len(data), data |-> data,
                                                 attempt |-> c.attempt]]
    /\ UNCHANGED <<now, store, runs, crawlLogs, ticks, written, response, metaVars, logCall>>

NextCrawl ==
    \/ \E options \in CrawlerOptions : BaseCrawl(options)
    \/ HydrationCrawl
    \/ LaunchResolves
    \/ LaunchRejects
    \/ PageFails
    \/ PageSucceeds
    \/ ScrapeCurrentPage
    \/ ScrapeFails
    \/ \E outcome \in NextOutcomes : ClickNextPage(outcome)
    \/ SleepElapses
    \/ \E rejected \in BOOLEAN : FinallyDone(rejected)

SpecCrawl == Init /\ [][NextCrawl]_vars

(* ----------------------------- API crawlers --------------------------- *)
MaxTokens == 2

MaxHistory == 2

\* config/pools.yaml: the token lists a Bifrost pool can be configured with
TokenLists == {SubSeq(<<"vDOT", "vETH", "vASTR">>, 1, n) : n \in 0..MaxTokens}

\* the data points of /api/omni/{SYMBOL}: a date and an avg that is a number or not
OmniItems == {[date |-> d, avg |-> v] : d \in 0..1, v \in {None, 1}}

\* what the upstream does with one request: fetch or response.json() throws;
\* a non-2xx status; a body without result; an empty result array; an array
\* of data points in any order
OmniAnswers ==
    {[throws |-> TRUE, ok |-> FALSE, hasResult |-> FALSE, result |-> <<>>],
     [throws |-> FALSE, ok |-> FALSE, hasResult |-> FALSE, result |-> <<>>],
     [throws |-> FALSE, ok |-> TRUE, hasResult |-> FALSE, result |-> <<>>],
     [throws |-> FALSE, ok |-> TRUE, hasResult |-> TRUE, result |-> <<>>]}
    \cup {[throws |-> FALSE, ok |-> TRUE, hasResult |-> TRUE, result |-> h] :
            h \in UNION {[1..n -> OmniItems] : n \in 1..MaxHistory}}

\* the body of the for loop of VStakingCrawler.fetchRaw and
\* FarmingCrawler.fetchRaw for one token: what it pushes onto results.
\* FarmingCrawler pushes only when the latest avg is a number
fetchOne(kind, token, answer) ==
    IF answer.throws \/ ~answer.ok \/ ~answer.hasResult \/ Len(answer.result) = 0
    THEN <<>>
    ELSE LET sorted == SortByKey(answer.result, "date", TRUE)
             latest == sorted[Len(sorted)]
         IN IF kind = "farming" /\ latest.avg = None THEN <<>>
            ELSE <<[token |-> token, avg |-> latest.avg, date |-> latest.date]>>

\* this.toSnapshot of the crawler of the given kind, at instant t
toSnapshot(kind, item, t) ==
    CASE kind = "vstaking" -> toSnapshotVStaking(item)
      [] kind = "farming" -> toSnapshotFarming(item, t)
      [] OTHER -> toSnapshotMoonwell(item, t)

\* a map that walks the raw items from the last to the first
mapToSnapshotReversed(kind, raw, t) ==
    [k \in DOMAIN raw |-> toSnapshot(kind, raw[Len(raw) + 1 - k], t)]

\* BaseApiCrawler.crawl: data = raw.map((item) => this.toSnapshot(item))
mapToSnapshot(kind, raw, t) ==
    [k \in DOMAIN raw |-> toSnapshot(kind, raw[k], t)]

\* BaseApiCrawler.crawl of a Bifrost crawler is called and fetchRaw reads
\* the configured tokens
ApiCrawl(kind, tokens) ==
    /\ crawl = <<>>
    /\ crawl' = [kind |-> kind, pc |-> "fetch", tokens |-> tokens, i |-> 1, results |-> <<>>,
                 answers |-> <<>>, outcome |-> "none", thrown |-> <<>>, result |-> <<>>]
    /\ UNCHANGED <<now, store, runs, crawlLogs, ticks, written, response, metaVars, logCall>>

\* the request for token i settles and the loop moves on
FetchSettles(answer) ==
    /\ crawl # <<>> /\ crawl.pc = "fetch"
    /\ crawl.i <= Len(crawl.tokens)
    /\ crawl' = [crawl EXCEPT !.results = @ \o fetchOne(crawl.kind, crawl.tokens[crawl.i], answer),
                              !.answers = Append(@, answer),
                              !.i = @ + 1]
    /\ UNCHANGED <<now, store, runs, crawlLogs, ticks, written, response, metaVars, logCall>>

\* the loop is over: fetchRaw returns results, crawl maps them with
\* toSnapshot and returns the CrawlResult
FetchRawReturns ==
    /\ crawl # <<>> /\ crawl.pc = "fetch"
    /\ crawl.i > Len(crawl.tokens)
    /\ LET data == mapToSnapshot(crawl.kind, crawl.results, now)
       IN crawl' = [crawl EXCEPT !.pc = "done", !.outcome = "returned",
                                 !.result = [itemsFound |-> Len(data), data |-> data]]
    /\ UNCHANGED <<now, store, runs, crawlLogs, ticks, written, response, metaVars, logCall>>

\* the three queries of MoonwellMarketsCrawler.fetchRaw: markets, tokens,
\* marketDailySnapshots
GqlCalls == 1..3

\* what ponder.moonwell.fi does with one query: fetch or res.json() throws;
\* a non-2xx status; a 2xx body with errors or without data; a 2xx body with data
GqlAnswers ==
    {[throws |-> TRUE, ok |-> FALSE, hasData |-> FALSE],
     [throws |-> FALSE, ok |-> FALSE, hasData |-> FALSE],
     [throws |-> FALSE, ok |-> TRUE, hasData |-> FALSE],
     [throws |-> FALSE, ok |-> TRUE, hasData |-> TRUE]}

\* MoonwellMarketsCrawler.gql: whether the call returns json.data
gqlReturns(answer) == ~answer.throws /\ answer.ok /\ answer.hasData

\* BaseApiCrawler.crawl of MoonwellMarketsCrawler is called and fetchRaw
\* issues its three queries at once
MarketsCrawl ==
    /\ crawl = <<>>
    /\ crawl' = [kind |-> "markets", pc |-> "gql", pending |-> GqlCalls, results |-> <<>>,
                 answers |-> <<>>, outcome |-> "none", thrown |-> <<>>, result |-> <<>>]
    /\ UNCHANGED <<now, store, runs, crawlLogs, ticks, written, response, metaVars, logCall>>

\* one of the three queries settles. When gql throws, Promise.all rejects,
\* fetchRaw rejects, and the catch block of crawl logs and rethrows
GqlSettles(call, answer) ==
    /\ crawl # <<>> /\ crawl.pc = "gql"
    /\ call \in crawl.pending
    /\ crawl' = IF gqlReturns(answer)
                THEN [crawl EXCEPT !.pending = @ \ {call}, !.answers = Append(@, answer)]
                ELSE [crawl EXCEPT !.pending = @ \ {call}, !.answers = Append(@, answer),
                                   !.pc = "done", !.outcome = "threw", !.thrown = answer]
    /\ UNCHANGED <<now, store, runs, crawlLogs, ticks, written, response, metaVars, logCall>>

\* the three queries have returned: fetchRaw joins each market of the
\* target chains to its latest daily snapshot, crawl maps the joined items
\* with toSnapshot and returns the CrawlResult
GqlJoined ==
    /\ crawl # <<>> /\ crawl.pc = "gql"
    /\ crawl.pending = {}
    /\ \E latest \in [DOMAIN MoonwellMarkets -> MoonwellLatest(now)] :
         LET raw == [k \in DOMAIN MoonwellMarkets |->
                       [market |-> MoonwellMarkets[k], latest |-> latest[k]]]
             data == mapToSnapshot("markets", raw, now)
         IN crawl' = [crawl EXCEPT !.pc = "done", !.outcome = "returned", !.results = raw,
                                   !.result = [itemsFound |-> Len(data), data |-> data]]
    /\ UNCHANGED <<now, store, runs, crawlLogs, ticks, written, response, metaVars, logCall>>

NextFetch ==
    \/ \E kind \in {"vstaking", "farming"}, tokens \in TokenLists : ApiCrawl(kind, tokens)
    \/ \E answer \in OmniAnswers : FetchSettles(answer)
    \/ FetchRawReturns
    \/ MarketsCrawl
    \/ \E call \in GqlCalls, answer \in GqlAnswers : GqlSettles(call, answer)
    \/ GqlJoined

SpecFetch == Init /\ [][NextFetch]_vars

\* markets and daily snapshots in one answer of ponder.moonwell.fi
MaxMarkets == 2

MaxSnaps == 2

\* TARGET_CHAIN_IDS: Moonbeam and Base
TargetChainIds == {1284, 8453}

\* String.prototype.toLowerCase on the addresses of the model
toLowerCase(str) ==
    CASE str \in {"0xAa", "0xAA", "0xaa"} -> "0xaa"
      [] str \in {"0xT1", "0xt1"} -> "0xt1"
      [] OTHER -> str

\* the items of the markets query: on a target chain or on Optimism
PonderMarkets ==
    {[chainId |-> c, address |-> a, underlyingTokenAddress |-> "0xT1"] :
        c \in {1284, 8453, 10}, a \in {"0xAa", "0xbb"}}

\* the items of the tokens query
PonderTokens == {[chainId |-> c, address |-> "0xt1", symbol |-> "USDC"] : c \in {1284, 8453}}

\* the items of the marketDailySnapshots query
PonderSnapshots ==
    {[chainId |-> c, marketAddress |-> a, timestamp |-> t] :
        c \in {1284, 8453, 10}, a \in {"0xaa", "0xAA", "0xbb"}, t \in 1..2}

\* a key that keeps the letter case of the address
mapKeyExact(chainId, address) == <<chainId, address>>

\* the key of tokenMap and snapshotMap: `${chainId}-${address.toLowerCase()}`
mapKey(chainId, address) == <<chainId, toLowerCase(address)>>

\* tokenMap.get(key) ?? null after the loop over the tokens: a later token
\* with the same key replaces an earlier one
tokenMapGet(tokens, key) ==
    LET hits == {i \in DOMAIN tokens : mapKey(tokens[i].chainId, tokens[i].address) = key}
    IN IF hits = {} THEN <<>>
       ELSE tokens[CHOOSE i \in hits : \A j \in hits : j <= i]

\* snapshotMap.get(key) ?? null after the loop over the daily snapshots:
\* of the snapshots of a target chain with that key, the entry is replaced
\* only by one with a greater timestamp
RECURSIVE snapshotMapGet(_, _, _)
snapshotMapGet(snaps, key, existing) ==
    IF snaps = <<>> THEN existing
    ELSE LET snap == Head(snaps)
             kept == IF /\ snap.chainId \in TargetChainIds
                        /\ mapKey(snap.chainId, snap.marketAddress) = key
                        /\ (existing = <<>> \/ snap.timestamp > existing.timestamp)
                     THEN snap ELSE existing
         IN snapshotMapGet(Tail(snaps), key, kept)

\* MoonwellMarketsCrawler.fetchRaw after the three queries: the markets of
\* the target chains, each joined to its token and its latest snapshot
joinMarkets(marketItems, tokenItems, snapshotItems) ==
    LET markets == SelectSeq(marketItems, LAMBDA m : m.chainId \in TargetChainIds)
    IN [k \in DOMAIN markets |->
          [market |-> markets[k],
           token |-> tokenMapGet(tokenItems,
                                 mapKey(markets[k].chainId, markets[k].underlyingTokenAddress)),
           latestSnapshot |-> snapshotMapGet(snapshotItems,
                                             mapKey(markets[k].chainId, markets[k].address),
                                             <<>>)]]

\* the three queries of a fetchRaw have returned these items
InitJoin ==
    /\ now = 0
    /\ store = [c \in Collections |-> <<>>]
    /\ runs = <<>>
    /\ crawlLogs = <<>>
    /\ ticks = <<>>
    /\ written = [c \in Collections |-> <<>>]
    /\ response = <<>>
    /\ cache = [name \in Aggregations |-> <<>>]
    /\ metaCalls = <<>>
    /\ logCall = <<>>
    /\ crawl \in {[kind |-> "join", pc |-> "joining", markets |-> m, tokens |-> t, snapshots |-> sn,
                    result |-> <<>>] :
                     m \in UNION {[1..n -> PonderMarkets] : n \in 0..MaxMarkets},
                     t \in {<<>>} \cup {<<x>> : x \in PonderTokens},
                     sn \in UNION {[1..n -> PonderSnapshots] : n \in 0..MaxSnaps}}

\* fetchRaw filters, builds its maps, joins and returns
FetchRawJoins ==
    /\ crawl # <<>> /\ crawl.kind = "join" /\ crawl.pc = "joining"
    /\ crawl' = [crawl EXCEPT !.pc = "done",
                              !.result = joinMarkets(crawl.markets, crawl.tokens, crawl.snapshots)]
    /\ UNCHANGED <<now, store, runs, crawlLogs, ticks, written, response, metaVars, logCall>>

NextJoin == FetchRawJoins

SpecJoin == InitJoin /\ [][NextJoin]_vars

(* ----------------------------- activity log --------------------------- *)
\* calls of ActivityLogService.record in one behaviour of SpecLog
MaxLogCalls == 2

\* largest itemsFound of a recorded activity
MaxItems == 2

\* the CrawlActivity objects recordSuccess and recordFailure hand to record
Activities ==
    {[protocol |-> ProtocolOf(svc), network |-> CrawlerNetwork(svc), poolType |-> PoolTypeOf(svc),
      itemsFound |-> n, success |-> TRUE, errorMessage |-> ""] :
        svc \in Services, n \in 0..MaxItems}
    \cup {[protocol |-> ProtocolOf(svc), network |-> CrawlerNetwork(svc),
           poolType |-> PoolTypeOf(svc), itemsFound |-> 0, success |-> FALSE,
           errorMessage |-> "timeout"] : svc \in Services}

\* how many calls of record have been made
LogCallsMade == IF logCall = <<>> THEN 0 ELSE logCall.n

\* record(activity) is called: crawledAt = new Date(), the document is
\* created and the call waits for crawlLogRepo.save
RecordCalled(activity) ==
    /\ IF logCall = <<>> THEN TRUE ELSE logCall.pc = "settled"
    /\ LogCallsMade < MaxLogCalls
    /\ logCall' = [n |-> LogCallsMade + 1, pc |-> "saving", activity |-> activity,
                   crawledAt |-> now, before |-> Len(crawlLogs), saved |-> FALSE,
                   line |-> "none", outcome |-> "none"]
    /\ UNCHANGED <<now, store, runs, crawlLogs, ticks, written, response, metaVars, crawl>>

\* a record whose catch blocks throw the error on
RecordRethrows(saved, appended) ==
    /\ logCall # <<>> /\ logCall.pc = "saving"
    /\ crawlLogs' = IF saved
                    THEN Append(crawlLogs, [f \in DOMAIN logCall.activity \cup {"crawledAt"} |->
                                              IF f = "crawledAt" THEN logCall.crawledAt
                                              ELSE logCall.activity[f]])
                    ELSE crawlLogs
    /\ logCall' = [logCall EXCEPT !.pc = "settled", !.saved = saved,
                                  !.line = IF ~saved THEN "none"
                                           ELSE IF appended THEN "appended" ELSE "failed",
                                  !.outcome = IF saved /\ appended THEN "returned" ELSE "threw"]
    /\ UNCHANGED <<now, store, runs, ticks, written, response, metaVars, crawl>>

\* crawlLogRepo.save settles and record runs to its end: a rejected save is
\* caught and logged; the line is appended to logs/server.log, a failure
\* of appendFileSync is caught and logged; the call returns
RecordSettles(saved, appended) ==
    /\ logCall # <<>> /\ logCall.pc = "saving"
    /\ crawlLogs' = IF saved
                    THEN Append(crawlLogs, [f \in DOMAIN logCall.activity \cup {"crawledAt"} |->
                                              IF f = "crawledAt" THEN logCall.crawledAt
                                              ELSE logCall.activity[f]])
                    ELSE crawlLogs
    /\ logCall' = [logCall EXCEPT !.pc = "settled", !.saved = saved,
                                  !.line = IF appended THEN "appended" ELSE "failed",
                                  !.outcome = "returned"]
    /\ UNCHANGED <<now, store, runs, ticks, written, response, metaVars, crawl>>

NextLog ==
    \/ \E activity \in Activities : RecordCalled(activity)
    \/ \E saved \in BOOLEAN, appended \in BOOLEAN : RecordSettles(saved, appended)

SpecLog == Init /\ [][NextLog]_vars

(* ------------------------------ properties ---------------------------- *)
\* the positions of the documents of collection c with the given index key
DocsWithKey(c, key) == {i \in DOMAIN store[c] : IndexKey(store[c][i]) = key}

\* the runs of one service
RunsOf(svc) == {q \in RunIds : runs[q].svc = svc}

\* whether snapshot objects x and y are of the same asset
SameAsset(x, y) ==
    x.network = y.network /\ x.poolType = y.poolType /\ x.assetSymbol = y.assetSymbol

\* C1: after any number of runs of any ingestion service, every
\* (network, poolType, assetSymbol, snapshotDate) tuple an acknowledged
\* upsert wrote has exactly one document in its collection, and no two
\* documents of a collection carry the same tuple
C1_OneRecordPerTuple ==
    \A c \in Collections :
        /\ \A i, j \in DOMAIN store[c] :
              i # j => IndexKey(store[c][i]) # IndexKey(store[c][j])
        /\ \A k \in DOMAIN written[c] : Cardinality(DocsWithKey(c, written[c][k].key)) = 1

\* two calls of one service have both upserted the same tuple and returned
C1_TwoRunsWroteOneTuple ==
    \E r1, r2 \in RunIds :
        /\ r1 < r2 /\ runs[r1].svc = runs[r2].svc
        /\ runs[r1].pc = "fulfilled" /\ runs[r2].pc = "fulfilled"
        /\ Len(runs[r1].data) > 0 /\ Len(runs[r2].data) > 0
        /\ IndexKey(StampedSnapshot(runs[r1], runs[r1].data[1]))
             = IndexKey(StampedSnapshot(runs[r2], runs[r2].data[1]))
        /\ Cardinality(DocsWithKey(RepoOf(runs[r1].svc),
                                   IndexKey(StampedSnapshot(runs[r1], runs[r1].data[1])))) = 1

\* C2: when a service is run, returns, and is run again within the same
\* UTC day for the same asset, the collection holds exactly one document
\* for (network, poolType, assetSymbol, that day) and its metric columns
\* are the ones the second run observed
C2_SecondRunWins ==
    \A r1, r2 \in RunIds :
        LET a == runs[r1]
            b == runs[r2]
            c == RepoOf(b.svc)
        IN (/\ r1 \in b.prior /\ a.svc = b.svc /\ RunsOf(b.svc) = {r1, r2}
            /\ a.pc = "fulfilled" /\ b.pc \in Settled /\ b.error \notin {"crawl", "store"}
            /\ Len(a.data) > 0 /\ Len(b.data) > 0
            /\ a.upsertDay = b.upsertDay /\ getUtcDateKey(now) = b.upsertDay)
           => \A i \in DOMAIN b.data :
                 (\E j \in DOMAIN a.data : SameAsset(a.data[j], b.data[i]))
                 => LET x == b.data[i]
                        hits == DocsWithKey(c, <<x.network, x.poolType, x.assetSymbol, b.upsertDay>>)
                    IN /\ Cardinality(hits) = 1
                       /\ \A h \in hits : \A f \in MetricFields :
                             store[c][h][f] = Get(x, f)

\* C3: ingesting an asset on day D with a data point observed that day
\* and, in a later run, on day D+1 with a data point observed that day
\* leaves one document with snapshotDate D and one with snapshotDate D+1,
\* and a history query from the first instant to the second returns both
C3_RolloverByObservedAt ==
    \A r1, r2 \in RunIds :
        LET a == runs[r1]
            b == runs[r2]
            c == RepoOf(b.svc)
        IN (/\ r1 \in b.prior /\ a.svc = b.svc
            /\ a.pc = "fulfilled" /\ b.pc \in Settled /\ b.error \notin {"crawl", "store"})
           => \A i \in DOMAIN a.data : \A j \in DOMAIN b.data :
                LET x == a.data[i]
                    y == b.data[j]
                    D == getUtcDateKey(x.dataTimestamp)
                    first == DocsWithKey(c, <<x.network, x.poolType, x.assetSymbol, D>>)
                    second == DocsWithKey(c, <<x.network, x.poolType, x.assetSymbol, D + 1>>)
                    history == getPoolsHistory(store, [from |-> x.dataTimestamp, to |-> y.dataTimestamp])
                IN (/\ SameAsset(x, y) /\ getUtcDateKey(y.dataTimestamp) = D + 1
                    /\ a.upsertDay = D /\ b.upsertDay = D + 1)
                   => /\ Cardinality(first) = 1 /\ Cardinality(second) = 1
                      /\ \A h \in first \cup second :
                            \E n \in DOMAIN history : history[n] = toSummary(store[c][h])

\* C4: a document whose snapshotDate is a day before the current UTC day
\* is changed by no step
C4_PastDayImmutable ==
    [][\A c \in Collections : \A i \in DOMAIN store[c] :
          (store[c][i].snapshotDate # None /\ store[c][i].snapshotDate < getUtcDateKey(now))
          => store'[c][i] = store[c][i]]_vars

\* the crawl_logs documents a call has appended
LogsOf(r) == {n \in DOMAIN crawlLogs : crawlLogs[n].run = r}

\* C5: every call of an ingestion method appends exactly one activity
\* record by the time it settles, whether it returns, its crawl throws or
\* an upsert throws (the log store itself being reachable), and never two
C5_OneActivityRecordPerRun ==
    \A r \in RunIds :
        /\ Cardinality(LogsOf(r)) <= 1
        /\ (runs[r].pc \in Settled /\ runs[r].error # "log") => Cardinality(LogsOf(r)) = 1

\* C6: a call whose crawl threw has reported a failure activity record with
\* success = false, itemsFound = 0 and the error's message
C6_CrawlFailureRecorded ==
    \A r \in RunIds :
        (runs[r].pc = "rejected" /\ runs[r].error = "crawl")
        => \E n \in DOMAIN crawlLogs : crawlLogs[n] = FailureLog(r, runs[r], runs[r].error)

\* the calls behind the three promises of a tick: Bifrost, Moonwell, Hydration
SourceRuns(tk) == <<{tk.vstaking, tk.farming}, {tk.markets}, {tk.pools}>>

\* C7: when runScheduledCrawl returns, the summary reports a source as
\* rejected exactly when one of its calls threw; every other source has
\* completed all its upserts and written its success activity record,
\* whatever happened to the sources that threw
C7_FailureIsolated ==
    \A k \in DOMAIN ticks :
        ticks[k].pc = "done" =>
          LET tk == ticks[k]
              src == SourceRuns(tk)
          IN \A n \in 1..3 :
               LET threw == \E r \in src[n] : runs[r].pc = "rejected" IN
               /\ tk.summary[n] = IF threw THEN "rejected" ELSE "fulfilled"
               /\ ~threw => \A r \in src[n] :
                     /\ runs[r].pc = "fulfilled"
                     /\ \A i \in DOMAIN runs[r].data :
                           \E h \in DOMAIN store[RepoOf(runs[r].svc)] :
                              Matches(store[RepoOf(runs[r].svc)][h],
                                      UpsertFilter(runs[r], runs[r].data[i]))
                     /\ runs[r].error = ""
                        => Cardinality({m \in LogsOf(r) : crawlLogs[m] = SuccessLog(r, runs[r])}) = 1

\* a tick has returned with one source rejected and the two others
\* fulfilled, their documents stored and their success records written
C7_OneFailedTwoSucceeded ==
    \E k \in DOMAIN ticks :
        /\ ticks[k].pc = "done"
        /\ Cardinality({n \in 1..3 : ticks[k].summary[n] = "rejected"}) = 1
        /\ Cardinality({n \in 1..3 : ticks[k].summary[n] = "fulfilled"}) = 2
        /\ \A n \in 1..3 : ticks[k].summary[n] = "fulfilled"
              => \A r \in SourceRuns(ticks[k])[n] :
                    /\ Len(runs[r].data) > 0
                    /\ LogsOf(r) # {}

\* C8: runScheduledCrawl returns only when every crawl it started has
\* settled, the two Bifrost crawls behind crawlAll included
C8_TickWaitsForEveryCrawl ==
    \A k \in DOMAIN ticks :
        ticks[k].pc = "done" => \A r \in RunIds : runs[r].tick = k => runs[r].pc \in Settled

\* C9: when two calls of one service overlap on one UTC day, then under
\* every interleaving both return, no two documents share an index tuple,
\* and every tuple's document holds what the last write under it set
C9_OverlapConverges ==
    \A r1, r2 \in RunIds :
        LET a == runs[r1]
            b == runs[r2]
            c == RepoOf(b.svc)
        IN (/\ r1 < r2 /\ r1 \notin b.prior /\ a.svc = b.svc /\ RunsOf(b.svc) = {r1, r2}
            /\ a.pc \in Settled /\ b.pc \in Settled
            /\ a.error \notin {"crawl", "store"} /\ b.error \notin {"crawl", "store"}
            /\ Len(a.data) > 0 /\ Len(b.data) > 0
            /\ a.upsertDay = b.upsertDay /\ getUtcDateKey(now) = b.upsertDay)
           => /\ a.pc = "fulfilled" /\ b.pc = "fulfilled"
              /\ \A i, j \in DOMAIN store[c] : i # j => IndexKey(store[c][i]) # IndexKey(store[c][j])
              /\ \A k \in DOMAIN written[c] :
                    \A h \in DocsWithKey(c, written[c][k].key) :
                       \A f \in DOMAIN written[c][k].snapshot :
                          store[c][h][f] = written[c][k].snapshot[f]

\* C10: for every stored group of documents with the same (network,
\* poolType, assetSymbol) and pairwise different dataTimestamp, getAllPools
\* without filters returns exactly one entry of that group, the one with
\* the greatest dataTimestamp
C10_LatestPerAsset ==
    \A c \in Collections : \A i \in DOMAIN store[c] :
        LET group == {j \in DOMAIN store[c] : SameAsset(store[c][j], store[c][i])}
            result == getAllPools(store, NoFilter)
            hits == {n \in DOMAIN result : SameAsset(result[n], store[c][i])}
        IN (\A j, l \in group : j # l => store[c][j].dataTimestamp # store[c][l].dataTimestamp)
           => /\ Cardinality(hits) = 1
              /\ \A n \in hits : \A j \in group :
                    result[n].dataTimestamp >= store[c][j].dataTimestamp

\* whether a document satisfies the filters asset, poolType, network and
\* minApy of a request; asset symbols compare without regard to case
Satisfies(doc, filter) ==
    /\ "asset" \in DOMAIN filter => ToUpperCase(doc.assetSymbol) = ToUpperCase(filter.asset)
    /\ "poolType" \in DOMAIN filter => doc.poolType = filter.poolType
    /\ "network" \in DOMAIN filter => doc.network = filter.network
    /\ "minApy" \in DOMAIN filter => (doc.totalApy # None /\ doc.totalApy >= filter.minApy)

\* the stored documents of the collections a request selects
Selected(filter) ==
    UNION {{store[c][i] : i \in DOMAIN store[c]} :
             c \in {selectSources(filter)[k] : k \in DOMAIN selectSources(filter)}}

\* C11: every record getAllPools returns is a stored record that satisfies
\* the filters asset, poolType, network and minApy, and is the most recent
\* of the stored records with its (protocol, poolType, assetSymbol) that
\* satisfy them; a key whose newest record fails the filters is still
\* answered by its newest record that passes (request without asset filter,
\* result not truncated by limit)
C11_FiltersBeforeDedup ==
    (response # <<>> /\ response.op = "getAllPools" /\ ~response.rejected) =>
        LET f == response.filter
            result == response.result
        IN /\ \A n \in DOMAIN result :
                 /\ \E d \in Selected(f) : toSummary(d) = result[n]
                 /\ Satisfies(result[n], f)
                 /\ \A d \in Selected(f) :
                       (DedupKey(d) = DedupKey(result[n]) /\ Satisfies(d, f))
                       => d.dataTimestamp <= result[n].dataTimestamp
           /\ ("asset" \notin DOMAIN f /\ Len(result) < f.limit)
              => \A d \in Selected(f) :
                    Satisfies(d, f) => \E n \in DOMAIN result : DedupKey(result[n]) = DedupKey(d)

\* a request was answered with a record although a newer stored record of
\* the same key fails its filters
C11_NewerRecordFilteredOut ==
    /\ response # <<>> /\ response.op = "getAllPools" /\ ~response.rejected
    /\ \E n \in DOMAIN response.result : \E d \in Selected(response.filter) :
          /\ DedupKey(d) = DedupKey(response.result[n])
          /\ d.dataTimestamp > response.result[n].dataTimestamp
          /\ ~Satisfies(d, response.filter)

\* how often x occurs in the sequence seq
Count(seq, x) == Cardinality({i \in DOMAIN seq : seq[i] = x})

\* the sort field's values of a result, in order
Column(result, field) == [n \in DOMAIN result |-> Get(result[n], field)]

\* C12: the result of getAllPools is in descending order of the selected
\* sort field, a record without a value never precedes a record with one, and
\* it is the first limit records of that order: it has min(limit, number of
\* deduplicated records) entries, all of them deduplicated records, and no
\* record left out has a larger value than one kept; rates
\* [5, missing, 10, 3, 8] with limit 3 give [10, 8, 5]
C12_SortedThenTruncated ==
    (response # <<>> /\ response.op = "getAllPools" /\ ~response.rejected) =>
        LET f == response.filter
            result == response.result
            all == latestSummaries(store, f)
            value == Column(result, f.sortBy)
        IN /\ \A i, j \in DOMAIN result :
                 i < j => /\ value[j] # None => (value[i] # None /\ value[i] >= value[j])
                          /\ value[i] = None => value[j] = None
           /\ Len(result) = IF Len(all) < f.limit THEN Len(all) ELSE f.limit
           /\ \A n \in DOMAIN result : Count(result, result[n]) <= Count(all, result[n])
           /\ \A k \in DOMAIN all :
                 Count(result, all[k]) < Count(all, all[k])
                 => \A n \in DOMAIN result :
                       \/ Get(all[k], f.sortBy) = None
                       \/ (value[n] # None /\ value[n] >= Get(all[k], f.sortBy))
           /\ (store = ExampleStore /\ f = [limit |-> 3, sortBy |-> "totalApy"])
              => value = <<10, 8, 5>>

\* the example was asked: five pools with rates 5, missing, 10, 3, 8 and
\* limit 3, answered with three records
C12_ExampleAnswered ==
    /\ response # <<>> /\ response.op = "getAllPools" /\ ~response.rejected
    /\ store = ExampleStore
    /\ response.filter = [limit |-> 3, sortBy |-> "totalApy"]
    /\ Len(response.result) = 3
    /\ Len(latestSummaries(store, response.filter)) = 5
    /\ \E k \in 1..5 : latestSummaries(store, response.filter)[k].totalApy = None

\* the stored records a history request with from and to asks for
InRange(f) ==
    {d \in Selected(f) : Satisfies(d, f) /\ f.from <= d.dataTimestamp /\ d.dataTimestamp <= f.to}

\* C13: getPoolsHistory with from and to returns exactly the stored records
\* of the selected collections whose dataTimestamp lies in [from, to] and
\* that match the other filters, each once, in ascending dataTimestamp
C13_HistoryExactRange ==
    (response # <<>> /\ response.op = "getPoolsHistory" /\ ~response.rejected) =>
        LET f == response.filter
            result == response.result
        IN /\ {result[n] : n \in DOMAIN result} = {toSummary(d) : d \in InRange(f)}
           /\ Len(result) = Cardinality(InRange(f))
           /\ \A i, j \in DOMAIN result :
                 i < j => result[i].dataTimestamp <= result[j].dataTimestamp

\* the calls before call j of the aggregation of call j that queried the store
MissesBefore(j) ==
    {i \in 1..(j - 1) : metaCalls[i].name = metaCalls[j].name /\ metaCalls[i].queried}

\* the last of them
LastMissBefore(j) == CHOOSE i \in MissesBefore(j) : \A k \in MissesBefore(j) : k <= i

C15_ExpiredEntryNeverServed ==
    /\ \A j \in DOMAIN metaCalls :
          IF MissesBefore(j) = {} THEN metaCalls[j].queried
          ELSE LET i == LastMissBefore(j)
               IN /\ ~metaCalls[j].queried
                     => /\ metaCalls[j].at <= metaCalls[i].at + CacheTtl
                        /\ metaCalls[j].value = metaCalls[i].value
                  /\ metaCalls[j].at > metaCalls[i].at + CacheTtl
                     => (metaCalls[j].queried /\ ~metaCalls[j].stale)
    /\ \A name \in Aggregations :
          LET misses == {i \in DOMAIN metaCalls :
                           metaCalls[i].name = name /\ metaCalls[i].queried}
          IN IF misses = {} THEN cache[name] = <<>>
             ELSE LET i == CHOOSE m \in misses : \A k \in misses : k <= m
                  IN cache[name] = [value |-> metaCalls[i].value,
                                    expiresAt |-> metaCalls[i].at + CacheTtl]

\* an entry outlived its time-to-live unread, and the first call after that
\* queried the store again and got a different result
C15_RequeriedAfterExpiry ==
    \E j \in DOMAIN metaCalls :
        /\ MissesBefore(j) # {}
        /\ metaCalls[j].at > metaCalls[LastMissBefore(j)].at + CacheTtl
        /\ metaCalls[j].queried
        /\ metaCalls[j].value # metaCalls[LastMissBefore(j)].value
        /\ cache[metaCalls[j].name].expiresAt = metaCalls[j].at + CacheTtl

\* a call of BaseCrawler.crawl / HydrationOmnipoolCrawler.crawl is under way or over
IsBaseCrawl == crawl # <<>> /\ crawl.kind = "base"

IsHydrationCrawl == crawl # <<>> /\ crawl.kind = "hydration"

\* C16: BaseCrawler.crawl starts at most retries + 1 attempts; when it
\* returns, the attempt that succeeded is the last one started, every
\* attempt before it failed, and the result is that attempt's; when it
\* throws, exactly retries + 1 attempts have failed and the error thrown is
\* the last attempt's
C16_AtMostRetriesPlusOneAttempts ==
    IsBaseCrawl =>
        /\ crawl.attempt <= crawl.retries + 1
        /\ crawl.launched <= crawl.attempt
        /\ crawl.pending = "return"
           => (crawl.result.attempt = crawl.attempt /\ Len(crawl.errors) = crawl.attempt - 1)
        /\ crawl.outcome = "returned"
           => (crawl.pc = "done" /\ crawl.pending = "return")
        /\ crawl.outcome = "threw"
           => /\ Len(crawl.errors) = crawl.retries + 1
              /\ crawl.attempt = crawl.retries + 1
              /\ \A k \in DOMAIN crawl.errors : crawl.errors[k][2] = k
              /\ crawl.thrown = crawl.errors[crawl.retries + 1]

\* a crawl with the default two retries failed three times and threw
C16_ThrewAfterLastAttempt ==
    /\ IsBaseCrawl
    /\ crawl.retries = DefaultRetries
    /\ crawl.outcome = "threw"
    /\ Len(crawl.errors) = DefaultRetries + 1

\* C17: HydrationOmnipoolCrawler.crawl throws to crawlPools only after the
\* first attempt and every retry of the retry count (DEFAULT_OPTIONS.retries)
\* have failed
C17_HydrationRetried ==
    (IsHydrationCrawl /\ crawl.outcome = "threw") => crawl.attempt = DefaultRetries + 1

C19_LinearBackoff ==
    IsBaseCrawl =>
        /\ \A k \in DOMAIN crawl.waits : crawl.waits[k] = crawl.retryDelayMs * k
        /\ Len(crawl.waits) = IF Len(crawl.errors) <= crawl.retries THEN Len(crawl.errors)
                              ELSE crawl.retries
        /\ crawl.attempt <= Len(crawl.waits) + 1
        /\ crawl.pc = "sleep" => Len(crawl.waits) = crawl.attempt

\* three attempts failed: the crawl waited 2000 ms, then 4000 ms, and threw
\* without a third wait
C19_WaitedTwiceThenThrew ==
    /\ IsBaseCrawl
    /\ crawl.outcome = "threw"
    /\ Len(crawl.errors) = 3
    /\ crawl.waits = <<2000, 4000>>

\* a call of VStakingCrawler.crawl / FarmingCrawler.crawl is under way or over
IsApiCrawl == crawl # <<>> /\ crawl.kind \in {"vstaking", "farming"}

\* an answer none of the failures of a token applies to: a 2xx response
\* whose body carries a non-empty result array
FetchedSuccessfully(answer) ==
    ~answer.throws /\ answer.ok /\ answer.hasResult /\ Len(answer.result) > 0

\* C20: whatever failed for some tokens, a Bifrost crawl requests every
\* configured token once, in order, returns, and its itemsFound is the
\* number of tokens whose request was answered with a 2xx status and a
\* non-empty result array
C20_TokenFailureSkipsOnlyThatToken ==
    (IsApiCrawl /\ crawl.pc = "done") =>
        /\ Len(crawl.answers) = Len(crawl.tokens)
        /\ crawl.outcome = "returned"
        /\ crawl.result.itemsFound =
             Cardinality({k \in DOMAIN crawl.answers : FetchedSuccessfully(crawl.answers[k])})
        /\ \A n \in DOMAIN crawl.result.data :
              \E k \in DOMAIN crawl.tokens :
                 /\ FetchedSuccessfully(crawl.answers[k])
                 /\ crawl.result.data[n].assetSymbol = crawl.tokens[k]

\* a call of crawl() of a direct-fetch crawler is under way or over
IsDirectFetchCrawl == crawl # <<>> /\ crawl.kind \in {"vstaking", "farming", "markets"}

\* an upstream call that threw; one that was answered with a non-2xx status
CallThrew(answer) == answer.throws

Non2xx(answer) == ~answer.throws /\ ~answer.ok

\* C21: a direct-fetch crawl one of whose upstream calls threw is aborted
\* by that call: it throws that call's error and makes no further call
C21_FetchThrowAbortsCrawl ==
    (IsDirectFetchCrawl /\ crawl.pc = "done") =>
        \A k \in DOMAIN crawl.answers :
            CallThrew(crawl.answers[k])
            => /\ crawl.outcome = "threw"
               /\ crawl.thrown = crawl.answers[k]
               /\ k = Len(crawl.answers)

\* C22: a direct-fetch crawl never throws because an upstream call was
\* answered with a non-2xx status
C22_Non2xxNeverFailsCrawl ==
    (IsDirectFetchCrawl /\ crawl.outcome = "threw") => ~Non2xx(crawl.thrown)

\* the errors of a findOneAndUpdate that rejected
UpsertErrors == {"store", "E11000"}

\* C23: a call one of whose upserts failed has still attempted the upsert
\* of every snapshot of its data and has reported its activity record
C23_UpsertFailureLosesOneItem ==
    \A r \in RunIds :
        (runs[r].pc \in Settled /\ runs[r].error \in UpsertErrors)
        => (runs[r].i = Len(runs[r].data) /\ LogsOf(r) # {})

\* C24: a call whose crawl threw (fetchRaw or toSnapshot threw) is rejected
\* without having entered upsertSnapshots and takes no further step, and
\* every step that changes the snapshot store is a step of a call whose
\* crawl returned its complete data
C24_FailedCrawlWritesNothing ==
    [][/\ \A r \in DOMAIN runs' :
             runs'[r].error = "crawl"
             => (runs'[r].pc = "rejected" /\ runs'[r].i = 0 /\ runs'[r].data = <<>>)
       /\ \A r \in RunIds : runs[r].error = "crawl" => runs'[r] = runs[r]
       /\ store' # store
          => \E r \in RunIds : /\ runs[r].pc = "upserting"
                               /\ runs[r].error # "crawl"
                               /\ runs[r].data \in UNION {CrawlData(runs[r].svc, t) : t \in Times}
                               /\ runs'[r] # runs[r]]_vars

\* the crawl of a call threw and the call was rejected with its collection empty
C24_CrawlThrewStoreEmpty ==
    \E r \in RunIds :
        /\ runs[r].pc = "rejected"
        /\ runs[r].error = "crawl"
        /\ store[RepoOf(runs[r].svc)] = <<>>
        /\ \A q \in RunIds : runs[q].svc = runs[r].svc => q = r

\* the collections a request reads
SelectedSources(f) == {selectSources(f)[k] : k \in DOMAIN selectSources(f)}

\* C25: a call of getAllPools or getPoolsHistory during which the read of a
\* selected collection fails is rejected with the error of a failed read
\* and returns no result, empty or partial; a call whose reads all succeed
\* is not rejected; and serving a request neither reads nor changes the
\* metadata cache
C25_ReadFailureSurfaces ==
    /\ response # <<>> =>
          IF SelectedSources(response.filter) \cap response.down # {}
          THEN /\ response.rejected
               /\ response.error \in SelectedSources(response.filter) \cap response.down
               /\ response.result = <<>>
          ELSE ~response.rejected
    /\ \A name \in Aggregations : cache[name] = <<>>

\* a request was rejected because one collection could not be read although
\* another selected collection holds records it could have returned
C25_RejectedDespiteReadableRecords ==
    /\ response # <<>> /\ response.rejected
    /\ \E c \in SelectedSources(response.filter) \ response.down :
          \E i \in DOMAIN store[c] : Satisfies(store[c][i], response.filter)

\* C26: no step lowers the updatedAt of a stored record: whatever the order
\* in which the writes of ingestion runs reach a record, each leaves its
\* updatedAt at least as great as it was (so that the record's values are
\* those of the run with the latest updatedAt)
C26_UpdatedAtNeverDecreases ==
    [][\A c \in Collections : \A i \in DOMAIN store[c] :
          store'[c][i].updatedAt >= store[c][i].updatedAt]_vars

\* C27: every record in the snapshot store, whichever of the three services
\* wrote it, carries an updatedAt stamp and a snapshotDate, and the
\* snapshotDate is the UTC calendar day of that stamp
C27_EveryRecordStamped ==
    \A c \in Collections : \A i \in DOMAIN store[c] :
        /\ store[c][i].updatedAt # None
        /\ store[c][i].snapshotDate # None
        /\ store[c][i].snapshotDate = getUtcDateKey(store[c][i].updatedAt)

\* C28: when BaseApiCrawler.crawl returns, data has one snapshot for each
\* item fetchRaw produced, data[i] is toSnapshot of the i-th item, and
\* itemsFound is the length of data: nothing is dropped, duplicated or
\* reordered
C28_DataIsRawMappedInOrder ==
    (IsDirectFetchCrawl /\ crawl.pc = "done" /\ crawl.outcome = "returned")
    => /\ Len(crawl.result.data) = Len(crawl.results)
       /\ \A i \in 1..Len(crawl.results) :
             crawl.result.data[i] = toSnapshot(crawl.kind, crawl.results[i], now)
       /\ crawl.result.itemsFound = Len(crawl.result.data)

\* a crawl returned two different snapshots made from two different raw items
C28_ReturnedTwoItems ==
    /\ IsDirectFetchCrawl /\ crawl.pc = "done" /\ crawl.outcome = "returned"
    /\ Len(crawl.results) = 2 /\ crawl.results[1] # crawl.results[2]
    /\ crawl.result.itemsFound = 2
    /\ crawl.result.data[1] # crawl.result.data[2]

\* C29: an overwrite replaces every field of the snapshot it writes: the
\* record under a key holds, for each field of the last snapshot written
\* under that key, that snapshot's value, so a metric the last run did not
\* provide is no longer the value an earlier run stored
C29_OverwriteReplacesEveryField ==
    \A c \in Collections : \A e \in DOMAIN written[c] :
        \A i \in DocsWithKey(c, written[c][e].key) :
            \A f \in DOMAIN written[c][e].snapshot :
                store[c][i][f] = written[c][e].snapshot[f]

\* a Moonwell run stored a supplyApy for a market; a later run of the same
\* day found no latest daily snapshot for it, and the record has no supplyApy
C29_MetricClearedBySecondRun ==
    \E r1, r2 \in RunIds : \E k \in DOMAIN MoonwellMarkets :
        LET a == runs[r1]
            b == runs[r2]
        IN /\ a.svc = "markets" /\ b.svc = "markets" /\ r1 \in b.prior
           /\ RunsOf("markets") = {r1, r2}
           /\ a.pc = "fulfilled" /\ b.pc = "fulfilled"
           /\ Len(a.data) >= k /\ Len(b.data) >= k
           /\ a.dateKey = b.dateKey
           /\ a.data[k].supplyApy # None /\ b.data[k].supplyApy = None
           /\ \E i \in DocsWithKey("moonwell_snapshots", IndexKey(StampedSnapshot(b, b.data[k]))) :
                 store["moonwell_snapshots"][i].supplyApy = None

\* C30: a success ActivityRecord is saved only after the last upsert of its
\* run was acknowledged: whenever a success record with itemsFound = n
\* exists, its run has n snapshots, the loop of upsertSnapshots has passed
\* all of them, and the store holds a record for each
C30_SuccessAfterEveryUpsert ==
    \A l \in DOMAIN crawlLogs :
        crawlLogs[l].success
        => LET run == runs[crawlLogs[l].run]
               c == RepoOf(run.svc)
           IN /\ crawlLogs[l].itemsFound = Len(run.data)
              /\ run.pc = "fulfilled"
              /\ (Len(run.data) > 0 => run.i = Len(run.data))
              /\ \A k \in DOMAIN run.data :
                    \E i \in DOMAIN store[c] :
                        Matches(store[c][i], UpsertFilter(run, run.data[k]))

\* a success record with itemsFound = 2 exists and both snapshots of its
\* run are in the store
C30_SuccessWithTwoItemsWritten ==
    \E l \in DOMAIN crawlLogs :
        /\ crawlLogs[l].success /\ crawlLogs[l].itemsFound = 2
        /\ LET run == runs[crawlLogs[l].run]
           IN /\ Len(run.data) = 2
              /\ \A k \in 1..2 :
                    \E i \in DOMAIN store[RepoOf(run.svc)] :
                        Matches(store[RepoOf(run.svc)][i], UpsertFilter(run, run.data[k]))

\* the number of documents in the store
StoredCount == Len(store["bifrost_snapshots"]) + Len(store["moonwell_snapshots"])
               + Len(store["hydration_snapshots"])

\* C31: getAllPools without filters and with a limit that does not cut the
\* result short returns, for every stored record, a record of its
\* protocol, network, poolType and assetSymbol: records that differ in
\* network are never merged
C31_NetworksNotMerged ==
    (/\ response # <<>> /\ response.op = "getAllPools" /\ ~response.rejected
     /\ DOMAIN response.filter = {"limit", "sortBy"}
     /\ response.filter.limit >= StoredCount)
    => \A c \in Collections : \A i \in DOMAIN store[c] :
          \E k \in DOMAIN response.result :
              /\ response.result[k].protocol = store[c][i].protocol
              /\ response.result[k].network = store[c][i].network
              /\ response.result[k].poolType = store[c][i].poolType
              /\ response.result[k].assetSymbol = store[c][i].assetSymbol

\* the deduplication keys of the stored records a request selects and its
\* filters admit
MatchingKeys(f) == {DedupKey(d) : d \in {x \in Selected(f) : Satisfies(x, f)}}

\* C32: deduplication is complete: every (protocol, poolType, assetSymbol)
\* key with a stored record matching the filters has a record in the result
\* of getAllPools (whose limit is not below the number of such keys),
\* however many records the collection holds
C32_EveryMatchingKeyAnswered ==
    (/\ response # <<>> /\ response.op = "getAllPools" /\ ~response.rejected
     /\ "asset" \notin DOMAIN response.filter
     /\ response.filter.limit >= Cardinality(MatchingKeys(response.filter)))
    => \A key \in MatchingKeys(response.filter) :
          \E k \in DOMAIN response.result : DedupKey(response.result[k]) = key

\* the stored records a request with an asset filter asks for: those of the
\* selected collections whose assetSymbol is the asset as the request
\* spells it, that pass the other filters and, for a history request, lie
\* in its range
StoredUnderAsset(op, f) ==
    {d \in Selected(f) :
        /\ d.assetSymbol = f.asset
        /\ Satisfies(d, f)
        /\ op = "getPoolsHistory" => (f.from <= d.dataTimestamp /\ d.dataTimestamp <= f.to)}

\* C33: when a stored record has assetSymbol S, getAllPools and
\* getPoolsHistory with asset = S return records, all of them with
\* assetSymbol S, whatever the letter case of S
C33_AssetFilterFindsStoredSymbol ==
    (/\ response # <<>> /\ ~response.rejected
     /\ "asset" \in DOMAIN response.filter
     /\ StoredUnderAsset(response.op, response.filter) # {})
    => /\ response.result # <<>>
       /\ \A k \in DOMAIN response.result :
             response.result[k].assetSymbol = response.filter.asset

\* the two Bifrost calls of a tick, as (failed, other) pairs
BifrostPairs(tk) == {<<tk.vstaking, tk.farming>>, <<tk.farming, tk.vstaking>>}

\* the next step of a call that nothing fails
StepOf(r) == CrawlReturns(r) \/ UpsertReturns(r) \/ SaveReturns(r)

\* C34: when one of the two Bifrost crawls of a tick has failed, crawlAll
\* is rejected and a tick that has returned reports Bifrost as rejected;
\* the other crawl is not stopped: while it has not settled its next step
\* can be taken, and once it has fulfilled, its snapshots are stored and
\* (its activity write not having failed) its success record is written
C34_SiblingCompletesCrawlAllRejects ==
    \A k \in DOMAIN ticks : \A p \in BifrostPairs(ticks[k]) :
        runs[p[1]].pc = "rejected"
        => LET other == runs[p[2]]
               c == RepoOf(other.svc)
           IN /\ TickPromises(ticks[k])[1] = "rejected"
              /\ ticks[k].pc = "done" => ticks[k].summary[1] = "rejected"
              /\ other.pc \notin Settled => ENABLED StepOf(p[2])
              /\ other.pc = "fulfilled"
                 => /\ \A i \in DOMAIN other.data :
                          \E h \in DOMAIN store[c] :
                              Matches(store[c][h], UpsertFilter(other, other.data[i]))
                    /\ other.error = ""
                       => \E m \in DOMAIN crawlLogs : crawlLogs[m] = SuccessLog(p[2], other)

\* a tick has returned reporting Bifrost as rejected: crawlVStaking threw,
\* crawlFarming fulfilled, its snapshot is stored and its success record written
C34_BifrostFailedYetFarmingWritten ==
    \E k \in DOMAIN ticks :
        LET tk == ticks[k]
            other == runs[tk.farming]
        IN /\ tk.pc = "done" /\ tk.summary[1] = "rejected"
           /\ runs[tk.vstaking].pc = "rejected"
           /\ other.pc = "fulfilled" /\ other.error = "" /\ Len(other.data) > 0
           /\ \E h \in DOMAIN store["bifrost_snapshots"] :
                 Matches(store["bifrost_snapshots"][h], UpsertFilter(other, other.data[1]))
           /\ \E m \in DOMAIN crawlLogs : crawlLogs[m] = SuccessLog(tk.farming, other)

\* C35: a call of ActivityLogService.record always returns: whether the
\* insert of the CrawlLog document or the append of the server-log line
\* fails, the call does not throw, and it inserts the document of its
\* activity once when the save succeeds and nothing otherwise
C35_RecordNeverThrows ==
    (logCall # <<>> /\ logCall.pc = "settled")
    => /\ logCall.outcome = "returned"
       /\ Len(crawlLogs) - logCall.before = (IF logCall.saved THEN 1 ELSE 0)
       /\ logCall.saved
          => /\ crawlLogs[Len(crawlLogs)].success = logCall.activity.success
             /\ crawlLogs[Len(crawlLogs)].itemsFound = logCall.activity.itemsFound
             /\ crawlLogs[Len(crawlLogs)].protocol = logCall.activity.protocol

\* a call of record for a successful run returned although both the insert
\* and the append failed, after an earlier call had inserted its document
C35_ReturnedAfterBothWritesFailed ==
    /\ logCall # <<>> /\ logCall.pc = "settled" /\ logCall.n = 2
    /\ logCall.activity.success /\ ~logCall.saved /\ logCall.line = "failed"
    /\ logCall.outcome = "returned"
    /\ Len(crawlLogs) = 1

\* C36: the data of a BaseCrawler.crawl that returned are the snapshots of
\* the items extracted in the attempt that succeeded, in their order, and
\* itemsFound is their number: nothing of an earlier, failed attempt is in it
C36_OnlySuccessfulAttemptData ==
    (IsBaseCrawl /\ crawl.pc = "done" /\ crawl.outcome = "returned")
    => /\ crawl.result.data = crawl.extracted
       /\ crawl.result.itemsFound = Len(crawl.extracted)
       /\ crawl.result.attempt = Len(crawl.errors) + 1

\* a crawl returned the two items of its third attempt after two attempts
\* had failed on the page
C36_ReturnedOnThirdAttempt ==
    /\ IsBaseCrawl /\ crawl.pc = "done" /\ crawl.outcome = "returned"
    /\ crawl.result.attempt = 3
    /\ crawl.errors = <<<<"page", 1>>, <<"page", 2>>>>
    /\ crawl.result.itemsFound = 2

\* the outcomes of clickNextPage on which the claim says the loop stops
StopOutcomes == {"absent", "ariaDisabled", "isDisabled", "classDisabled", "error"}

\* C37: scrapeAllPages scrapes the pages 1, 2, ... once each, in order, and
\* allPools is their rows in that order; it goes on to the next page exactly
\* when Next was clicked, whatever the page number, and stops at the first
\* page whose Next is absent, disabled or raises an error; having stopped,
\* also on an error, the crawl returns the snapshots of the rows of the
\* pages visited (unless closing the browser fails)
C37_PagesOnceInOrderUntilNoNext ==
    IsHydrationCrawl =>
        LET k == Len(crawl.visited)
            n == Len(crawl.nexts)
        IN /\ crawl.visited = [j \in 1..k |-> j]
           /\ Len(crawl.pageRows) = k
           /\ crawl.allPools = Flatten(crawl.pageRows)
           /\ \A j \in 1..k : crawl.pageRows[j] \in PageRows(j)
           /\ \A j \in 1..(n - 1) : crawl.nexts[j] = "clicked"
           /\ crawl.pc \in {"scrape", "next"}
              => /\ \A j \in 1..n : crawl.nexts[j] = "clicked"
                 /\ crawl.pageNum = n + 1
           /\ crawl.pending = "return"
              => /\ n = k /\ n >= 1
                 /\ crawl.nexts[n] \in StopOutcomes
                 /\ crawl.pc = "done"
                    => \/ crawl.outcome = "returned"
                       \/ crawl.outcome = "threw" /\ crawl.thrown[1] = "close"
           /\ crawl.outcome = "returned"
              => /\ crawl.pending = "return"
                 /\ crawl.result.itemsFound = Len(crawl.allPools)
                 /\ crawl.result.data = [i \in DOMAIN crawl.allPools |->
                                           toSnapshotHydration(crawl.allPools[i], now)]

\* a crawl scraped two pages with a pool each, advancing from the second
\* raised an error, and the crawl returned the two snapshots
C37_ErrorOnSecondPageReturnsBoth ==
    /\ IsHydrationCrawl /\ crawl.pc = "done" /\ crawl.outcome = "returned"
    /\ crawl.nexts = <<"clicked", "error">>
    /\ crawl.visited = <<1, 2>>
    /\ crawl.result.itemsFound = 2
    /\ crawl.result.data[1].assetSymbol = "DOT" /\ crawl.result.data[2].assetSymbol = "HDX"

\* the positions in the upstream answer of the markets on a target chain
TargetPositions(markets) == {i \in DOMAIN markets : markets[i].chainId \in TargetChainIds}

\* the daily snapshots of a market: same chainId, same address but for letter case
SnapshotsOf(snaps, market) ==
    {snaps[j] : j \in {i \in DOMAIN snaps :
                          /\ snaps[i].chainId = market.chainId
                          /\ toLowerCase(snaps[i].marketAddress) = toLowerCase(market.address)}}

\* C38: fetchRaw returns one joined item for each market on chain 1284 or
\* 8453, in the order of the upstream answer, and the latestSnapshot of an
\* item is a daily snapshot of the market's chain and address (letter case
\* apart) than which none has a greater timestamp, or null when the market
\* has none
C38_JoinPerTargetMarketLatestSnapshot ==
    (crawl # <<>> /\ crawl.kind = "join" /\ crawl.pc = "done")
    => LET positions == TargetPositions(crawl.markets)
       IN /\ Len(crawl.result) = Cardinality(positions)
          /\ \A k \in DOMAIN crawl.result :
                LET i == CHOOSE p \in positions : Cardinality({q \in positions : q <= p}) = k
                    item == crawl.result[k]
                    mine == SnapshotsOf(crawl.snapshots, crawl.markets[i])
                IN /\ item.market = crawl.markets[i]
                   /\ IF mine = {} THEN item.latestSnapshot = <<>>
                      ELSE /\ item.latestSnapshot \in mine
                           /\ \A x \in mine : x.timestamp <= item.latestSnapshot.timestamp

\* a market whose address is spelt with capitals was joined to the later of
\* its two daily snapshots, whose address is spelt in lower case, and a
\* market of another chain was left out
C38_JoinedAcrossLetterCase ==
    /\ crawl # <<>> /\ crawl.kind = "join" /\ crawl.pc = "done"
    /\ Len(crawl.markets) = 2 /\ Len(crawl.result) = 1
    /\ crawl.result[1].market.address = "0xAa"
    /\ Len(crawl.snapshots) = 2
    /\ crawl.snapshots[1].timestamp # crawl.snapshots[2].timestamp
    /\ \A j \in 1..2 : /\ crawl.snapshots[j].marketAddress = "0xaa"
                        /\ crawl.snapshots[j].chainId = crawl.result[1].market.chainId
    /\ crawl.result[1].latestSnapshot # <<>>
    /\ crawl.result[1].latestSnapshot.timestamp = 2

====
